---- MODULE Spec2Model ----
(***************************************************************************)
(* State-machine model of PythonDJ (src/app.py, src/utils.py):             *)
(*   - the /ws/sync synchronization hub (DJConnectionManager and the       *)
(*     websocket_sync_hub handler), one asyncio task per connection, with  *)
(*     every `await` a point where other tasks may run;                    *)
(*   - the recommendation / radio aggregation handlers that publish the    *)
(*     process-wide out_tracks list and default_context.                   *)
(***************************************************************************)
EXTENDS Integers, Sequences, FiniteSets, TLC

(* ------------------------------ bounds --------------------------------- *)
\* number of websocket connections that may ever be opened on /ws/sync
MaxConn == 3
\* number of messages the clients send on /ws/sync in one run
MaxMsgs == 2
\* number of /recommendations/ and /radio/ requests made in one run of the
\* aggregation handlers
MaxReqs == 2
\* number of /recommendations/ requests made in one run of the hub
MaxHubReqs == 1
\* number of records in one upstream response
MaxResp == 1

\* the longest branch handed to a function that is run on its own
MaxTracks == 3
\* the most records one upstream call returns when the branches are built on
\* their own
MaxFetched == 2
\* the number of /track/{idx}/ requests
MaxReads == 2
\* the requests of a run in which a cached result is served again
MaxCacheReqs == 3
\* the most lyric lines handed to detect_verses
MaxLines == 3

(* --------------------------- program constants ------------------------- *)
\* default_context = {"recLimit": 30, "maxVol": 100}
DefaultVol == 100
\* Python's None where a number is expected (msg_data.get("volume") on a miss)
NoVol == -1

Conns == 1..MaxConn
\* the task of the HTTP handler that broadcasts from outside the hub
HttpTask == 0
Tasks == {HttpTask} \cup Conns
\* sender=None of DJConnectionManager.broadcast
NoConn == 0

Roles == {"player", "controller"}

(* ------------------------------ messages ------------------------------- *)
\* volumes a client may put in a vol message
VolValues == {42, 7}

\* a JSON "data" object; absent keys carry the neutral value of their field
Payload(none, volume, url, img, tag, videoId, title, timestamp) ==
    [none |-> none, volume |-> volume, url |-> url, img |-> img, tag |-> tag,
     videoId |-> videoId, title |-> title, timestamp |-> timestamp]
\* "data": null / key missing
NoData == Payload(TRUE, NoVol, "", "", "", "", <<>>, NoVol)
VolData(v) == Payload(FALSE, v, "", "", "", "", <<>>, NoVol)
UrlData(u) == Payload(FALSE, NoVol, u, "", "", "", <<>>, NoVol)
TagData(d) == Payload(FALSE, NoVol, "", "", d, "", <<>>, NoVol)
\* play_data = {"videoId": target_id, "title": query, "timestamp": 20}
PlayData(id, title, ts) == Payload(FALSE, NoVol, "", "", "", id, title, ts)
QrData(img, u) == Payload(FALSE, NoVol, u, img, "", "", <<>>, NoVol)

Msg(type, data) == [type |-> type, data |-> data]

\* what a client may send on /ws/sync: {"type": ..., "data": ...}
Inbound ==
    {Msg("ping", NoData), Msg("other", NoData)}
    \cup {Msg("vol", VolData(v)) : v \in VolValues}
    \cup {Msg("vol", NoData)}
    \cup {Msg(t, TagData("d1")) : t \in {"play", "control"}}
    \cup {Msg("qr", d) : d \in {UrlData("u1"), UrlData(""), NoData}}

(* ------------------------------- state --------------------------------- *)
VARIABLES
    all_connections,        \* manager.all_connections (a list)
    player_connections,     \* manager.player_connections
    controller_connections, \* manager.controller_connections
    maxVol,                 \* default_context["maxVol"]
    hpc,                    \* position of each connection's websocket_sync_hub task
    bc,                     \* per task: the locals of its running manager.broadcast
    wire,                   \* per task: the send_json calls of its current handling, per target
    dropped,                \* connections a failed broadcast send has removed
    lastVol,                \* volume of the latest vol message the hub handled
    nmsg,                   \* number of messages received on /ws/sync so far
    out_tracks,             \* the global out_tracks: the published track list
    RESULT_CACHE,           \* the global RESULT_CACHE: cache_key -> context
    rq,                     \* locals of the running /recommendations/ handler
    rd,                     \* locals of the running /radio/ handler
    nreq,                   \* number of aggregate requests started so far
    pubseq,                 \* the number of the request that published out_tracks
    call,                   \* the arguments of a function that is run on its own
    ret,                    \* what that function returned
    reader,                 \* locals of the threadpool thread running /track/{idx}/
    next_song_dt            \* the title, videoId and timestamp of the next song

hubVars == <<all_connections, player_connections, controller_connections, maxVol,
             hpc, bc, wire, dropped, lastVol, nmsg>>
aggVars == <<out_tracks, RESULT_CACHE, rq, rd, nreq, pubseq>>
fnVars == <<call, ret>>
\* the state that no step of the event loop changes
offLoopVars == <<fnVars, reader, next_song_dt>>
vars == <<hubVars, aggVars, offLoopVars>>

NoMsg == Msg("none", NoData)
IdleBc == [active |-> FALSE, msg |-> NoMsg, sender |-> NoConn,
           targets |-> <<>>, todo |-> <<>>, cur |-> NoConn]
EmptyWire == [c \in Conns |-> <<>>]

Range(s) == {s[i] : i \in 1..Len(s)}

(* ------------------------ DJConnectionManager -------------------------- *)
\* list.remove(x) guarded by `x in list`: drops the first occurrence
RECURSIVE Remove(_, _)
Remove(s, c) ==
    IF s = <<>> THEN <<>>
    ELSE IF Head(s) = c THEN Tail(s)
    ELSE <<Head(s)>> \o Remove(Tail(s), c)

\* a faulty variant of Disconnect: the role lists are left as they were
DisconnectAllOnly(lists, c) ==
    [all |-> Remove(lists.all, c), player |-> lists.player,
     controller |-> lists.controller]

\* a faulty variant of Disconnect: all_connections is left as it was
DisconnectRolesOnly(lists, c) ==
    [all |-> lists.all, player |-> Remove(lists.player, c),
     controller |-> Remove(lists.controller, c)]

\* DJConnectionManager.disconnect: the three lists after disconnect(c)
Disconnect(lists, c) ==
    [all |-> Remove(lists.all, c),
     player |-> Remove(lists.player, c),
     controller |-> Remove(lists.controller, c)]

Lists == [all |-> all_connections, player |-> player_connections,
          controller |-> controller_connections]

SetLists(l) ==
    /\ all_connections' = l.all
    /\ player_connections' = l.player
    /\ controller_connections' = l.controller

\* broadcast's choice of the list to iterate
Targets(target_role) ==
    IF target_role = "player" THEN player_connections
    ELSE IF target_role = "controller" THEN controller_connections
    ELSE all_connections

\* the loop's `if connection == sender: continue`: the rest of the snapshot from
\* the first entry that is sent to
RECURSIVE SkipSender(_, _)
SkipSender(todo, sender) ==
    IF todo = <<>> THEN <<>>
    ELSE IF Head(todo) = sender THEN SkipSender(Tail(todo), sender)
    ELSE todo

\* broadcast runs up to its next `await connection.send_json(message)`:
\* either a send to the next target is begun, or the loop is over.
\* rest: the part of the snapshot not yet iterated.
BcAdvance(t, b, rest) ==
    LET todo == SkipSender(rest, b.sender) IN
    IF todo = <<>>
    THEN /\ bc' = [bc EXCEPT ![t] = IdleBc]
         /\ wire' = [wire EXCEPT ![t] = EmptyWire]
    ELSE /\ bc' = [bc EXCEPT ![t] = [b EXCEPT !.todo = Tail(todo), !.cur = Head(todo)]]
         /\ wire' = [wire EXCEPT ![t][Head(todo)] = Append(@, b.msg)]

\* whether task t's broadcast returns in this step
BcReturns(b, rest) == SkipSender(rest, b.sender) = <<>>

\* manager.broadcast(message, sender, target_role) is entered by task t
BcStart(t, message, sender, target_role) ==
    LET snap == Targets(target_role)
        b == [active |-> TRUE, msg |-> message, sender |-> sender,
              targets |-> snap, todo |-> <<>>, cur |-> NoConn]
    IN BcAdvance(t, b, snap)

(* ------------------------- websocket_sync_hub -------------------------- *)
\* generate_qr_base64(url): the rendered image, a function of the url alone
QrImage(url) == IF url = "u1" THEN "png(u1)" ELSE "png(other)"

\* {"type": "pong", "ts": time.time()}: the clock reading is left out
Pong == Msg("pong", NoData)
\* {"type": "qr", "data": {"img": img_base64, "url": url}}
QrReply(url) == Msg("qr", QrData(QrImage(url), url))

\* the event loop is free to run a task: the /recommendations/ handler is not
\* inside one of its blocking ThreadPoolExecutor sections
LoopFree == rq.pc \notin {"phase1", "phase2"}

\* the role a client puts in its /ws/sync?role= query: the first client is the
\* DJ screen, the later ones are phone remotes
RoleChoices(x) == IF x = 1 THEN {"player"} ELSE {"controller"}

\* manager.connect(websocket, role), then the push of the current volume is begun
Connect(x, r) ==
    /\ LoopFree
    /\ UNCHANGED <<aggVars, offLoopVars>>
    /\ hpc[x] = "new"
    /\ \A y \in 1..(x - 1) : hpc[y] # "new"
    /\ all_connections' = Append(all_connections, x)
    /\ IF r = "player"
       THEN /\ player_connections' = Append(player_connections, x)
            /\ UNCHANGED controller_connections
       ELSE /\ controller_connections' = Append(controller_connections, x)
            /\ UNCHANGED player_connections
    /\ wire' = [wire EXCEPT ![x] = [EmptyWire EXCEPT ![x] =
                                       <<Msg("vol", VolData(maxVol))>>]]
    /\ hpc' = [hpc EXCEPT ![x] = "init"]
    /\ UNCHANGED <<maxVol, bc, dropped, lastVol, nmsg>>

\* websocket.accept() raises: the handler ends before it registers anything
ConnectFail(x) ==
    /\ LoopFree
    /\ UNCHANGED <<aggVars, offLoopVars>>
    /\ hpc[x] = "new"
    /\ hpc' = [hpc EXCEPT ![x] = "closed"]
    /\ UNCHANGED <<all_connections, player_connections, controller_connections,
                   maxVol, bc, wire, dropped, lastVol, nmsg>>

\* the initial send_json returns: the handler enters its receive loop
InitDone(x) ==
    /\ LoopFree
    /\ UNCHANGED <<aggVars, offLoopVars>>
    /\ hpc[x] = "init"
    /\ hpc' = [hpc EXCEPT ![x] = "recv"]
    /\ wire' = [wire EXCEPT ![x] = EmptyWire]
    /\ UNCHANGED <<all_connections, player_connections, controller_connections,
                   maxVol, bc, dropped, lastVol, nmsg>>

\* the initial send_json raises: line 121 is outside the try block, so the
\* exception leaves the handler without manager.disconnect
InitFail(x) ==
    /\ LoopFree
    /\ UNCHANGED <<aggVars, offLoopVars>>
    /\ hpc[x] = "init"
    /\ hpc' = [hpc EXCEPT ![x] = "closed"]
    /\ wire' = [wire EXCEPT ![x] = EmptyWire]
    /\ UNCHANGED <<all_connections, player_connections, controller_connections,
                   maxVol, bc, dropped, lastVol, nmsg>>

\* the except branches of the handler: manager.disconnect(websocket), then close
HandlerAbort(x) ==
    /\ SetLists(Disconnect(Lists, x))
    /\ hpc' = [hpc EXCEPT ![x] = "closed"]
    /\ wire' = [wire EXCEPT ![x] = EmptyWire]
    /\ UNCHANGED <<maxVol, bc, lastVol>>

\* a faulty variant of Reply: the reply goes out on every connection
ReplyToAll(x, m) ==
    /\ wire' = [wire EXCEPT ![x] = [c \in Conns |-> <<m>>]]
    /\ hpc' = [hpc EXCEPT ![x] = "reply"]
    /\ UNCHANGED <<all_connections, player_connections, controller_connections,
                   maxVol, bc, lastVol>>

\* a reply to the sender alone is begun: await websocket.send_json(reply)
Reply(x, m) ==
    /\ wire' = [wire EXCEPT ![x] = [EmptyWire EXCEPT ![x] = <<m>>]]
    /\ hpc' = [hpc EXCEPT ![x] = "reply"]
    /\ UNCHANGED <<all_connections, player_connections, controller_connections,
                   maxVol, bc, lastVol>>

\* the handler goes straight back to receive_json
Ignore(x) ==
    /\ wire' = [wire EXCEPT ![x] = EmptyWire]
    /\ UNCHANGED <<all_connections, player_connections, controller_connections,
                   maxVol, hpc, bc, lastVol>>

\* a faulty variant of Relay: the broadcast is left running in the background and
\* the handler goes back to receive_json at once
RelayDetached(x, m) ==
    /\ BcStart(x, Msg(m.type, m.data), x, "all")
    /\ hpc' = [hpc EXCEPT ![x] = "recv"]
    /\ UNCHANGED <<all_connections, player_connections, controller_connections>>

\* await manager.broadcast({"type": t, "data": msg_data}, sender=websocket)
Relay(x, m) ==
    /\ BcStart(x, Msg(m.type, m.data), x, "all")
    /\ hpc' = [hpc EXCEPT ![x] = IF BcReturns([sender |-> x], all_connections)
                                  THEN "recv" ELSE "bcast"]
    /\ UNCHANGED <<all_connections, player_connections, controller_connections>>

\* a faulty variant of HandlePass: the type is relayed without the data
HandlePassTypeOnly(x, m) ==
    /\ Relay(x, Msg(m.type, NoData))
    /\ UNCHANGED <<maxVol, lastVol>>

\* elif msg_type == "play" / elif msg_type == "control"
HandlePass(x, m) ==
    /\ Relay(x, m)
    /\ UNCHANGED <<maxVol, lastVol>>

\* a faulty variant of HandleVol: the volume is relayed but not stored
HandleVolRelayOnly(x, m) ==
    IF m.data.none
    THEN HandlerAbort(x)
    ELSE /\ UNCHANGED <<maxVol, lastVol>>
         /\ Relay(x, m)

\* elif msg_type == "vol"
HandleVol(x, m) ==
    IF m.data.none
    THEN \* None.get("volume") raises AttributeError
         HandlerAbort(x)
    ELSE /\ maxVol' = m.data.volume
         /\ lastVol' = m.data.volume
         /\ Relay(x, m)

\* elif msg_type == "qr"
HandleQr(x, m, renders) ==
    IF m.data.none \/ (m.data.url # "" /\ ~renders)
    THEN \* None.get("url"), or generate_qr_base64, raises
         HandlerAbort(x)
    ELSE IF m.data.url # ""
    THEN Reply(x, QrReply(m.data.url))
    ELSE Ignore(x)

\* data = await websocket.receive_json() returns m, and the handler runs to its
\* next await
Receive(x, m, renders) ==
    /\ LoopFree
    /\ UNCHANGED <<aggVars, offLoopVars>>
    /\ hpc[x] = "recv"
    /\ nmsg < MaxMsgs
    /\ nmsg' = nmsg + 1
    /\ UNCHANGED dropped
    /\ CASE m.type = "ping" -> Reply(x, Pong)
         [] m.type \in {"play", "control"} -> HandlePass(x, m)
         [] m.type = "vol" -> HandleVol(x, m)
         [] m.type = "qr" -> HandleQr(x, m, renders)
         [] OTHER -> Ignore(x)

\* receive_json raises WebSocketDisconnect: the client went away
ClientDisconnect(x) ==
    /\ LoopFree
    /\ UNCHANGED <<aggVars, offLoopVars>>
    /\ hpc[x] = "recv"
    /\ HandlerAbort(x)
    /\ UNCHANGED <<dropped, nmsg>>

\* the reply's send_json returns
ReplyDone(x) ==
    /\ LoopFree
    /\ UNCHANGED <<aggVars, offLoopVars>>
    /\ hpc[x] = "reply"
    /\ hpc' = [hpc EXCEPT ![x] = "recv"]
    /\ wire' = [wire EXCEPT ![x] = EmptyWire]
    /\ UNCHANGED <<all_connections, player_connections, controller_connections,
                   maxVol, bc, dropped, lastVol, nmsg>>

\* the reply's send_json raises: except Exception -> manager.disconnect
ReplyFail(x) ==
    /\ LoopFree
    /\ UNCHANGED <<aggVars, offLoopVars>>
    /\ hpc[x] = "reply"
    /\ HandlerAbort(x)
    /\ UNCHANGED <<dropped, nmsg>>

\* the pending send_json of task t's broadcast returns: on to the next target
BcSendDone(t) ==
    /\ bc[t].active
    /\ BcAdvance(t, bc[t], bc[t].todo)
    /\ UNCHANGED <<all_connections, player_connections, controller_connections,
                   dropped>>

\* a faulty variant of BcSendFail: the exception ends the whole broadcast
BcSendFailStops(t) ==
    /\ bc[t].active
    /\ SetLists(Disconnect(Lists, bc[t].cur))
    /\ dropped' = dropped \cup {bc[t].cur}
    /\ bc' = [bc EXCEPT ![t] = IdleBc]
    /\ wire' = [wire EXCEPT ![t] = EmptyWire]

\* the pending send_json raises: except Exception -> self.disconnect(connection)
BcSendFail(t) ==
    /\ bc[t].active
    /\ SetLists(Disconnect(Lists, bc[t].cur))
    /\ dropped' = dropped \cup {bc[t].cur}
    /\ BcAdvance(t, bc[t], bc[t].todo)

\* a send of the relay that connection x's handler is running completes
SendDone(x) ==
    /\ LoopFree
    /\ UNCHANGED <<aggVars, offLoopVars>>
    /\ hpc[x] = "bcast"
    /\ BcSendDone(x)
    /\ hpc' = [hpc EXCEPT ![x] = IF BcReturns(bc[x], bc[x].todo) THEN "recv" ELSE "bcast"]
    /\ UNCHANGED <<maxVol, lastVol, nmsg>>

SendFail(x) ==
    /\ LoopFree
    /\ UNCHANGED <<aggVars, offLoopVars>>
    /\ hpc[x] = "bcast"
    /\ BcSendFail(x)
    /\ hpc' = [hpc EXCEPT ![x] = IF BcReturns(bc[x], bc[x].todo) THEN "recv" ELSE "bcast"]
    /\ UNCHANGED <<maxVol, lastVol, nmsg>>

(* ------------------------------ strings -------------------------------- *)
\* a Python str is modelled as the sequence of its characters
LowerCh(c) ==
    CASE c = "A" -> "a" [] c = "B" -> "b" [] c = "C" -> "c" [] c = "D" -> "d"
      [] c = "E" -> "e" [] c = "F" -> "f" [] c = "G" -> "g" [] c = "H" -> "h"
      [] c = "I" -> "i" [] c = "J" -> "j" [] c = "K" -> "k" [] c = "L" -> "l"
      [] c = "M" -> "m" [] c = "N" -> "n" [] c = "O" -> "o" [] c = "P" -> "p"
      [] c = "Q" -> "q" [] c = "R" -> "r" [] c = "S" -> "s" [] c = "T" -> "t"
      [] c = "U" -> "u" [] c = "V" -> "v" [] c = "W" -> "w" [] c = "X" -> "x"
      [] c = "Y" -> "y" [] c = "Z" -> "z" [] OTHER -> c

\* str.lower()
Lower(str) == [i \in 1..Len(str) |-> LowerCh(str[i])]

\* `needle in hay` for two str
Contains(needle, hay) ==
    \E k \in 0..(Len(hay) - Len(needle)) :
        \A i \in 1..Len(needle) : hay[k + i] = needle[i]

\* any(x in hay for x in needles)
ContainsAny(needles, hay) == \E n \in needles : Contains(n, hay)

(* --------------------------- process_results --------------------------- *)
OfficialRelease == "MUSIC_VIDEO_TYPE_OFFICIAL_RELEASE"
\* an absent or empty videoId
NoId == ""
\* an absent title, or a filter_title / exclude_title of None
NoStr == <<>>

OfficialNeedles == {<<"o", "f", "f", "i", "c", "i", "a", "l", " ", "v", "i", "d", "e", "o">>, <<"o", "f", "f", "i", "c", "i", "a", "l", " ", "m", "u", "s", "i", "c", " ", "v", "i", "d", "e", "o">>, <<"(", "o", "f", "f", "i", "c", "i", "a", "l", " ", "v", "i", "d", "e", "o", ")">>,
                    <<"o", "f", "f", "i", "c", "i", "a", "l", " ", "a", "u", "d", "i", "o">>}
RemixNeedles == {<<"r", "e", "m", "i", "x">>, <<"r", "e", "-", "m", "i", "x">>, <<"r", "m", "x">>}
SlowedNeedles == {<<"s", "l", "o", "w", "e", "d">>, <<"s", "l", "o", "w", "e", "d", " ", "+", " ", "r", "e", "v", "e", "r", "b">>, <<"s", "l", "o", "w", "e", "d", " ", "a", "n", "d", " ", "r", "e", "v", "e", "r", "b">>}
LyricsNeedles == {<<"l", "y", "r", "i", "c", "a", "l">>, <<"l", "y", "r", "i", "c", "s">>}

\* labels.append(...) in the order of the tests
DetectLabels(title) ==
    LET tl == Lower(title) IN
    (IF ContainsAny(OfficialNeedles, tl) THEN <<"Official">> ELSE <<>>)
    \o (IF ContainsAny(RemixNeedles, tl) THEN <<"Remix">> ELSE <<>>)
    \o (IF ContainsAny(SlowedNeedles, tl) THEN <<"Slowed">> ELSE <<>>)
    \o (IF Contains(<<"l", "i", "v", "e">>, tl) /\ ~Contains(<<"d", "e", "l", "i", "v", "e", "r">>, tl) THEN <<"Live">> ELSE <<>>)
    \o (IF ContainsAny(LyricsNeedles, tl) THEN <<"Lyrics">> ELSE <<>>)
    \o (IF Contains(<<"c", "o", "v", "e", "r">>, tl) THEN <<"Cover">> ELSE <<>>)
    \o (IF Contains(<<"m", "a", "s", "h", "u", "p">>, tl) THEN <<"Mashup">> ELSE <<>>)

\* weight = 0; +10 if Official; +5 if an official release of a song query
Weight(labels, result_type, rawtype) ==
    (IF "Official" \in Range(labels) THEN 10 ELSE 0)
    + (IF result_type = "song" /\ rawtype = OfficialRelease THEN 5 ELSE 0)

\* url = f"https://music.youtube.com/watch?v={video_id}"
WatchUrl(id) == <<"https://music.youtube.com/watch?v=", id>>

\* the index of a track that has not been published
NoIndex == -1

\* the dict appended to processed (artist and thumbnail are left out)
MakeTrack(t, result_type) ==
    LET labels == DetectLabels(t.title) IN
    [title |-> t.title, videoId |-> t.videoId, music_url |-> WatchUrl(t.videoId),
     type |-> result_type, labels |-> labels,
     weight |-> Weight(labels, result_type, t.type), index |-> NoIndex]

\* the `continue` tests of the loop
Rejected(t, filter_title) ==
    \/ t.title = NoStr
    \/ (filter_title # NoStr /\ Lower(t.title) = filter_title)
    \/ t.videoId = NoId

RECURSIVE Accepted(_, _, _)
Accepted(results, result_type, filter_title) ==
    IF results = <<>> THEN <<>>
    ELSE (IF Rejected(Head(results), filter_title) THEN <<>>
          ELSE <<MakeTrack(Head(results), result_type)>>)
         \o Accepted(Tail(results), result_type, filter_title)

\* processed.sort(key=weight, reverse=True): a stable sort, heaviest first
RECURSIVE InsertByWeight(_, _)
InsertByWeight(sorted, t) ==
    IF sorted = <<>> THEN <<t>>
    ELSE IF Head(sorted).weight >= t.weight
         THEN <<Head(sorted)>> \o InsertByWeight(Tail(sorted), t)
         ELSE <<t>> \o sorted

RECURSIVE SortByWeight(_, _)
SortByWeight(sorted, rest) ==
    IF rest = <<>> THEN sorted
    ELSE SortByWeight(InsertByWeight(sorted, Head(rest)), Tail(rest))

process_results(results, result_type, filter_title) ==
    SortByWeight(<<>>, Accepted(results, result_type, filter_title))

(* ----------------------- recommendation expansion ---------------------- *)
Ids(tracks) == {tracks[i].videoId : i \in 1..Len(tracks)}

\* for r in recs: if r.videoId not in existing_ids: append, add, break at limit
RECURSIVE Extend(_, _, _, _)
Extend(tracks, existing_ids, recs, limit) ==
    IF recs = <<>> THEN tracks
    ELSE IF Head(recs).videoId \in existing_ids
         THEN Extend(tracks, existing_ids, Tail(recs), limit)
         ELSE IF Len(tracks) + 1 >= limit
              THEN Append(tracks, Head(recs))
              ELSE Extend(Append(tracks, Head(recs)),
                          existing_ids \cup {Head(recs).videoId}, Tail(recs), limit)

\* lines 412-424 / 426-438: one branch after its recommendations arrived
Expand(tracks, recs_raw, result_type, exclude_title, target_id, limit) ==
    Extend(tracks,
           Ids(tracks) \cup (IF target_id # NoId THEN {target_id} ELSE {}),
           process_results(recs_raw, result_type, exclude_title), limit)

(* ------------------------ reorder_for_selection ------------------------ *)
\* step 1: the tracks other than the one with videoId = tid
OthersById(tracks, tid) ==
    IF tid # NoId THEN SelectSeq(tracks, LAMBDA t : t.videoId # tid) ELSE tracks

\* step 1: playing = the last track with videoId = tid, if any
PlayingById(tracks, tid) ==
    LET hits == IF tid # NoId THEN SelectSeq(tracks, LAMBDA t : t.videoId = tid)
                ELSE <<>>
    IN IF hits = <<>> THEN <<>> ELSE <<hits[Len(hits)]>>

\* q_lower == t_title or q_lower in t_title
TitleHit(q_lower, t) == q_lower = Lower(t.title) \/ Contains(q_lower, Lower(t.title))

\* the first index of others whose title hits, or 0
FirstHit(others, q_lower) ==
    IF \E i \in 1..Len(others) : TitleHit(q_lower, others[i])
    THEN CHOOSE i \in 1..Len(others) :
            /\ TitleHit(q_lower, others[i])
            /\ \A j \in 1..(i - 1) : ~TitleHit(q_lower, others[j])
    ELSE 0

\* list.pop(i), 1-based
PopAt(s, i) == [j \in 1..(Len(s) - 1) |-> IF j < i THEN s[j] ELSE s[j + 1]]

\* steps 1-3: <<playing (a list of at most one track), others>>
Extract(tracks, tid, q_lower, is_refresh) ==
    LET p1 == PlayingById(tracks, tid)
        o1 == OthersById(tracks, tid)
        h == FirstHit(o1, q_lower)
        p2 == IF p1 = <<>> /\ h # 0 THEN <<o1[h]>> ELSE p1
        o2 == IF p1 = <<>> /\ h # 0 THEN PopAt(o1, h) ELSE o1
        take == p2 = <<>> /\ o2 # <<>> /\ ~is_refresh
    IN [playing |-> IF take THEN <<o2[1]>> ELSE p2,
        others |-> IF take THEN Tail(o2) ELSE o2]

\* random.shuffle(list): every order of the list
Shuffles(s) ==
    {[i \in 1..Len(s) |-> s[p[i]]] : p \in Permutations(1..Len(s))}

\* a faulty variant of reorder_for_selection: the playing track is put first on a
\* refresh too
ReorderPinsAlways(tracks, tid, q, is_refresh) ==
    IF tracks = <<>> THEN {<<>>}
    ELSE LET q_lower == Lower(q)
             e == Extract(tracks, tid, q_lower, is_refresh)
             matches == SelectSeq(e.others, LAMBDA t : Contains(q_lower, Lower(t.title)))
             non_matches == SelectSeq(e.others,
                                      LAMBDA t : ~Contains(q_lower, Lower(t.title)))
         IN {e.playing \o n \o m : n \in Shuffles(non_matches), m \in Shuffles(matches)}

\* a faulty variant of reorder_for_selection: the playing track is put last
ReorderPinsLast(tracks, tid, q, is_refresh) ==
    IF tracks = <<>> THEN {<<>>}
    ELSE LET q_lower == Lower(q)
             e == Extract(tracks, tid, q_lower, is_refresh)
             matches == SelectSeq(e.others, LAMBDA t : Contains(q_lower, Lower(t.title)))
             non_matches == SelectSeq(e.others,
                                      LAMBDA t : ~Contains(q_lower, Lower(t.title)))
             pinned == IF e.playing # <<>> /\ ~is_refresh THEN e.playing ELSE <<>>
         IN {n \o m \o pinned : n \in Shuffles(non_matches), m \in Shuffles(matches)}

\* a faulty variant of reorder_for_selection: the title matches are put before
\* the other tracks
ReorderMatchesFirst(tracks, tid, q, is_refresh) ==
    IF tracks = <<>> THEN {<<>>}
    ELSE LET q_lower == Lower(q)
             e == Extract(tracks, tid, q_lower, is_refresh)
             matches == SelectSeq(e.others, LAMBDA t : Contains(q_lower, Lower(t.title)))
             non_matches == SelectSeq(e.others,
                                      LAMBDA t : ~Contains(q_lower, Lower(t.title)))
             pinned == IF e.playing # <<>> /\ ~is_refresh THEN e.playing ELSE <<>>
         IN {pinned \o m \o n : n \in Shuffles(non_matches), m \in Shuffles(matches)}

\* every list reorder_for_selection(tracks, tid, q, is_refresh) may return
reorder_for_selection(tracks, tid, q, is_refresh) ==
    IF tracks = <<>> THEN {<<>>}
    ELSE LET q_lower == Lower(q)
             e == Extract(tracks, tid, q_lower, is_refresh)
             matches == SelectSeq(e.others, LAMBDA t : Contains(q_lower, Lower(t.title)))
             non_matches == SelectSeq(e.others,
                                      LAMBDA t : ~Contains(q_lower, Lower(t.title)))
             pinned == IF e.playing # <<>> /\ ~is_refresh THEN e.playing ELSE <<>>
         IN {pinned \o n \o m : n \in Shuffles(non_matches), m \in Shuffles(matches)}

\* for idx, t in enumerate(out_tracks): t["index"] = idx
WithIndex(tracks) == [i \in 1..Len(tracks) |-> [tracks[i] EXCEPT !.index = i - 1]]

(* --------------------- get_recommendations_as_webview ------------------ *)
\* "timestamp": 20 of the play event
PlayOffset == 20

\* the status of the response a handler last sent: none yet, the 200 of a
\* returned value, the 500 of the `except Exception` clauses
NoStatus == 0
StatusOk == 200
StatusError == 500

\* the upstream calls of /recommendations/: the jobs of the two executors
SearchCalls == {"song_search", "video_search"}
RecsCalls == {"song_recs", "video_recs"}

\* flight: the upstream calls submitted to an executor that have not returned
IdleRq == [pc |-> "idle", seq |-> 0, status |-> NoStatus, flight |-> {}, query |-> NoStr, limit |-> 0, nextPlay |-> FALSE,
           refresh |-> FALSE, anchored |-> FALSE, videoId |-> NoId, maxVol |-> 0, target_id |-> NoId,
           exclude_title |-> NoStr, song_tracks |-> <<>>, video_tracks |-> <<>>,
           song_anchor_id |-> NoId, video_anchor_id |-> NoId]

\* cache_key = f"{query}_{limit}" (+ f"_{videoId}" if videoId)
CacheKey(query, limit, videoId) == <<query, limit, videoId>>

\* a faulty variant of AfterPlay: with the target known, its recommendations are
\* requested together with the searches
AfterPlayEager(r) ==
    IF CacheKey(r.query, r.limit, r.videoId) \in DOMAIN RESULT_CACHE /\ ~r.refresh
    THEN rq' = [IdleRq EXCEPT !.status = StatusOk]
    ELSE rq' = [r EXCEPT !.pc = "phase1",
                         !.flight = SearchCalls
                                    \cup (IF r.target_id # NoId THEN RecsCalls ELSE {})]

\* lines 252-261, 387-393: the handler after target resolution and the play
\* broadcast. A cache hit returns the cached context; otherwise both searches are
\* submitted and the handler waits for their results.
AfterPlay(r) ==
    IF CacheKey(r.query, r.limit, r.videoId) \in DOMAIN RESULT_CACHE /\ ~r.refresh
    THEN rq' = [IdleRq EXCEPT !.status = StatusOk]
    ELSE rq' = [r EXCEPT !.pc = "phase1", !.flight = SearchCalls]

\* a faulty variant of AwaitPlay: the searches are submitted before the play
\* broadcast has returned
AwaitPlayEager(r) == rq' = [r EXCEPT !.flight = SearchCalls]

\* line 250: the handler is suspended in `await manager.broadcast(...)`
AwaitPlay(r) == rq' = r

\* lines 230-250: a request arrives; the target is resolved and, for a
\* selection, the play event is broadcast. A selection by title alone with a
\* list published calls find_video_id, a name app.py neither defines nor
\* imports: the NameError ends the request with a 500 (lines 536-537).
RecStart(query, limit, nextPlay, maxVolForm, videoId, refresh, maxReqs) ==
    /\ LoopFree
    /\ rq.pc = "idle"
    /\ nreq < maxReqs
    /\ nreq' = nreq + 1
    /\ LET anchored == refresh /\ out_tracks # <<>>
           target == IF anchored THEN out_tracks[1].videoId
                     ELSE IF ~nextPlay THEN NoId
                     ELSE videoId
           raises == ~anchored /\ nextPlay /\ videoId = NoId /\ out_tracks # <<>>
           q == IF anchored THEN out_tracks[1].title ELSE query
           r == [pc |-> "bcast", seq |-> nreq + 1, status |-> NoStatus, flight |-> {}, query |-> q, limit |-> limit, nextPlay |-> nextPlay,
                 refresh |-> refresh, anchored |-> anchored, videoId |-> videoId,
                 maxVol |-> maxVolForm,
                 target_id |-> target,
                 exclude_title |-> IF anchored \/ nextPlay THEN Lower(q) ELSE NoStr,
                 song_tracks |-> <<>>, video_tracks |-> <<>>,
                 song_anchor_id |-> NoId, video_anchor_id |-> NoId]
       IN IF raises
          THEN /\ rq' = [IdleRq EXCEPT !.status = StatusError]
               /\ UNCHANGED <<bc, wire>>
          ELSE IF ~anchored /\ nextPlay /\ target # NoId
          THEN /\ BcStart(HttpTask, Msg("play", PlayData(target, q, PlayOffset)),
                          NoConn, "all")
               /\ IF BcReturns([sender |-> NoConn], all_connections)
                  THEN AfterPlay(r) ELSE AwaitPlay(r)
          ELSE /\ AfterPlay(r)
               /\ UNCHANGED <<bc, wire>>
    /\ UNCHANGED <<all_connections, player_connections, controller_connections,
                   maxVol, hpc, dropped, lastVol, nmsg, out_tracks, pubseq, RESULT_CACHE, rd>>
    /\ UNCHANGED offLoopVars

\* a send of the play broadcast completes
RecSendDone ==
    /\ LoopFree
    /\ rq.pc = "bcast"
    /\ BcSendDone(HttpTask)
    /\ IF BcReturns(bc[HttpTask], bc[HttpTask].todo) THEN AfterPlay(rq) ELSE AwaitPlay(rq)
    /\ UNCHANGED <<maxVol, hpc, lastVol, nmsg, out_tracks, pubseq, RESULT_CACHE, rd, nreq>>
    /\ UNCHANGED offLoopVars

RecSendFail ==
    /\ LoopFree
    /\ rq.pc = "bcast"
    /\ BcSendFail(HttpTask)
    /\ IF BcReturns(bc[HttpTask], bc[HttpTask].todo) THEN AfterPlay(rq) ELSE AwaitPlay(rq)
    /\ UNCHANGED <<maxVol, hpc, lastVol, nmsg, out_tracks, pubseq, RESULT_CACHE, rd, nreq>>
    /\ UNCHANGED offLoopVars

\* lines 403-409: anchor_id = target_id if target_id else tracks[0]["videoId"],
\* for a branch whose recommendation call is submitted (NoId: no call)
AnchorId(r, tracks) ==
    IF r.target_id # NoId THEN r.target_id
    ELSE IF tracks # <<>> THEN tracks[1].videoId
    ELSE NoId

\* lines 387-409: both searches have returned (an upstream failure returns []);
\* the recommendation call of each branch that has a seed is submitted
RecSearch(song_search_results, video_search_results) ==
    /\ rq.pc = "phase1"
    /\ LET song_tracks == process_results(song_search_results, "song", rq.exclude_title)
           video_tracks == process_results(video_search_results, "video",
                                           rq.exclude_title)
       IN rq' = [rq EXCEPT
                   !.pc = "phase2",
                   !.song_tracks = song_tracks,
                   !.video_tracks = video_tracks,
                   !.song_anchor_id = AnchorId(rq, song_tracks),
                   !.video_anchor_id = AnchorId(rq, video_tracks),
                   !.flight =
                      (IF rq.target_id # NoId \/ song_tracks # <<>>
                       THEN {"song_recs"} ELSE {})
                      \cup (IF rq.target_id # NoId \/ video_tracks # <<>>
                            THEN {"video_recs"} ELSE {})]
    /\ UNCHANGED <<hubVars, out_tracks, pubseq, RESULT_CACHE, rd, nreq>>
    /\ UNCHANGED offLoopVars

\* the context dict of lines 512-520
Context(query, tracks, song_tracks, video_tracks, limit, maxVolForm) ==
    [query |-> query, tracks |-> tracks, song_tracks |-> song_tracks,
     video_tracks |-> video_tracks, recLimit |-> limit, maxVol |-> maxVolForm]

\* the mode of a request: `if refresh ... elif nextPlay`, and line 441
Mode(r) == IF r.refresh THEN "refresh" ELSE IF r.nextPlay THEN "selectNext" ELSE "search"

\* RESULT_CACHE[cache_key] = context; `by` is not in the dict, it records the
\* mode of the run that built the context
CacheEntry(context, by) ==
    [query |-> context.query, tracks |-> context.tracks,
     song_tracks |-> context.song_tracks, video_tracks |-> context.video_tracks,
     recLimit |-> context.recLimit, maxVol |-> context.maxVol, by |-> by]

\* dict[key] = value
Put(d, k, v) == [x \in DOMAIN d \cup {k} |-> IF x = k THEN v ELSE d[x]]

\* lines 403-438: the two branches after the recommendation calls returned
\* song_recs / video_recs (a call is made only for a branch with a seed)
Expanded(r, song_recs, video_recs) ==
    [song |-> IF r.target_id # NoId \/ r.song_tracks # <<>>
              THEN Expand(r.song_tracks, song_recs, "song", r.exclude_title,
                          r.target_id, r.limit)
              ELSE r.song_tracks,
     video |-> IF r.target_id # NoId \/ r.video_tracks # <<>>
               THEN Expand(r.video_tracks, video_recs, "video", r.exclude_title,
                           r.target_id, r.limit)
               ELSE r.video_tracks]

\* lines 441-445: the target used by the reordering
ReorderTarget(r, e) ==
    IF r.target_id # NoId THEN r.target_id
    ELSE IF e.song # <<>> THEN e.song[1].videoId
    ELSE IF e.video # <<>> THEN e.video[1].videoId
    ELSE NoId

\* lines 440-503: the branches that may be concatenated
Branches(r, e) ==
    IF r.nextPlay \/ r.refresh
    THEN {[song |-> s, video |-> v] :
            s \in reorder_for_selection(e.song, ReorderTarget(r, e), r.query, r.refresh),
            v \in reorder_for_selection(e.video, ReorderTarget(r, e), r.query, r.refresh)}
    ELSE {e}

\* a faulty variant of Published: each branch is numbered before the two are
\* concatenated, so the positions restart at the video branch
PublishedPerBranch(song_tracks, video_tracks) ==
    WithIndex(song_tracks) \o WithIndex(video_tracks)

\* lines 505-510: the list that becomes out_tracks
Published(song_tracks, video_tracks) == WithIndex(song_tracks \o video_tracks)

\* lines 399-532: the recommendation calls have returned; the branches are
\* extended, reordered, concatenated and published
RecFinish(song_recs, video_recs) ==
    /\ rq.pc = "phase2"
    /\ \E b \in Branches(rq, Expanded(rq, song_recs, video_recs)) :
         LET tracks == Published(b.song, b.video)
             n == Len(b.song)
         IN /\ out_tracks' = tracks
            /\ pubseq' = rq.seq
            /\ maxVol' = rq.maxVol
            /\ RESULT_CACHE' =
                 Put(RESULT_CACHE, CacheKey(rq.query, rq.limit, rq.videoId),
                     CacheEntry(Context(rq.query, tracks, SubSeq(tracks, 1, n),
                                        SubSeq(tracks, n + 1, Len(tracks)), rq.limit,
                                        rq.maxVol),
                                Mode(rq)))
    /\ rq' = [IdleRq EXCEPT !.status = StatusOk]
    /\ UNCHANGED <<all_connections, player_connections, controller_connections,
                   hpc, bc, wire, dropped, lastVol, nmsg, rd, nreq>>
    /\ UNCHANGED offLoopVars

(* ---------------------------- start_radio_mode ------------------------- *)
\* audio_task, resolution_task, video_task: the state of each executor job of
\* one request ("none" before run_in_executor, then "running", then "done")
IdleRd == [pc |-> "idle", seq |-> 0, status |-> NoStatus, videoId |-> NoId, seed |-> NoId,
           audio_task |-> "none", resolution_task |-> "none", video_task |-> "none"]

\* process_radio_tracks(raw_list, label_type)
RECURSIVE process_radio_tracks(_, _)
process_radio_tracks(raw_list, label_type) ==
    IF raw_list = <<>> THEN <<>>
    ELSE LET t == Head(raw_list) IN
         (IF t.videoId = NoId THEN <<>>
          ELSE <<[title |-> t.title, videoId |-> t.videoId,
                  music_url |-> WatchUrl(t.videoId), type |-> "radio",
                  labels |-> <<label_type>>, weight |-> 5, index |-> NoIndex]>>)
         \o process_radio_tracks(Tail(raw_list), label_type)

\* a faulty variant of RadioStart: the video playlist fetch is submitted with
\* the other two jobs, on the unresolved id
RadioStartAll(videoId, maxReqs) ==
    /\ LoopFree
    /\ rd.pc = "idle"
    /\ nreq < maxReqs
    /\ nreq' = nreq + 1
    /\ rd' = [pc |-> "resolving", seq |-> nreq + 1, status |-> NoStatus, videoId |-> videoId, seed |-> NoId,
              audio_task |-> "running", resolution_task |-> "running",
              video_task |-> "running"]
    /\ UNCHANGED <<hubVars, out_tracks, pubseq, RESULT_CACHE, rq>>
    /\ UNCHANGED offLoopVars

\* lines 786-794: the audio playlist fetch and the resolution are handed to the
\* executor, the handler awaits the resolution
RadioStart(videoId, maxReqs) ==
    /\ LoopFree
    /\ rd.pc = "idle"
    /\ nreq < maxReqs
    /\ nreq' = nreq + 1
    /\ rd' = [pc |-> "resolving", seq |-> nreq + 1, status |-> NoStatus, videoId |-> videoId, seed |-> NoId,
              audio_task |-> "running", resolution_task |-> "running",
              video_task |-> "none"]
    /\ UNCHANGED <<hubVars, out_tracks, pubseq, RESULT_CACHE, rq>>
    /\ UNCHANGED offLoopVars

\* line 794-802: resolve_video_id returned seed (the original id, or the id of a
\* video rendition); the video playlist fetch is started and both are awaited
RadioResolved(seed) ==
    /\ LoopFree
    /\ rd.pc = "resolving"
    /\ rd' = [rd EXCEPT !.pc = "fetching", !.seed = seed, !.resolution_task = "done",
                        !.video_task = "running"]
    /\ UNCHANGED <<hubVars, out_tracks, pubseq, RESULT_CACHE, rq, nreq>>
    /\ UNCHANGED offLoopVars

\* lines 802-818: both playlists arrived; the lists are built and published
RadioPublish(raw_audio, raw_video) ==
    /\ LoopFree
    /\ rd.pc = "fetching"
    /\ out_tracks' = Published(process_radio_tracks(raw_audio, "Radio Mix"),
                               process_radio_tracks(raw_video, "Video Mix"))
    /\ pubseq' = rd.seq
    /\ rd' = [IdleRd EXCEPT !.status = StatusOk]
    /\ UNCHANGED <<hubVars, RESULT_CACHE, rq, nreq>>
    /\ UNCHANGED offLoopVars

\* the playlist fetches that may raise: fetch_playlist_blocking has no try
RadioFetches == {"audio", "video"}

\* lines 802, 820-822: the fetches of the non-empty set `failed` raised; gather
\* re-raises and the request ends with a 500, whatever the other fetch returned
RadioFail(failed) ==
    /\ LoopFree
    /\ rd.pc = "fetching"
    /\ failed # {}
    /\ rd' = [IdleRd EXCEPT !.status = StatusError]
    /\ UNCHANGED <<hubVars, out_tracks, pubseq, RESULT_CACHE, rq, nreq>>
    /\ UNCHANGED offLoopVars

(* --------------------------- binary64 numbers -------------------------- *)
\* utils.py computes times as Python floats. A non-negative float is held here
\* exactly, as an integer part and FracBits binary digits after the point;
\* every operation rounds its exact result to Mantissa significant binary
\* digits, to nearest and ties to even, as IEEE 754 binary64 does.
FracBits == 64
Mantissa == 53

Zeros(n) == [i \in 1..n |-> 0]
Fx(n, frac) == [int |-> n, frac |-> frac]
FxInt(n) == Fx(n, Zeros(FracBits))

\* floor(log2(n)) for n >= 1
RECURSIVE Log2(_)
Log2(n) == IF n <= 1 THEN 0 ELSE 1 + Log2(n \div 2)

\* the index of the first 1 of bits, or 0
FirstOne(bits) ==
    IF \E i \in DOMAIN bits : bits[i] = 1
    THEN CHOOSE i \in DOMAIN bits : bits[i] = 1 /\ \A j \in 1..(i - 1) : bits[j] = 0
    ELSE 0

\* bits plus one unit in the last place, and the carry out of the first place
Incr(bits) ==
    LET z == IF \E i \in DOMAIN bits : bits[i] = 0
             THEN CHOOSE i \in DOMAIN bits :
                     bits[i] = 0 /\ \A j \in (i + 1)..Len(bits) : bits[j] = 1
             ELSE 0
    IN [carry |-> IF z = 0 THEN 1 ELSE 0,
        bits |-> [i \in 1..Len(bits) |-> IF i < z THEN bits[i]
                                        ELSE IF i = z THEN 1 ELSE 0]]

\* x (with `sticky` telling that digits beyond FracBits were dropped) rounded to
\* the nearest float
RoundTo(x, sticky) ==
    LET lead == IF x.int > 0 THEN 0 - Log2(x.int) ELSE FirstOne(x.frac)
        keep == lead + Mantissa - 1
    IN IF (x.int = 0 /\ lead = 0) \/ keep >= FracBits THEN x
       ELSE LET rest == sticky \/ \E i \in (keep + 2)..FracBits : x.frac[i] = 1
                odd == IF keep = 0 THEN x.int % 2 = 1 ELSE x.frac[keep] = 1
                up == x.frac[keep + 1] = 1 /\ (rest \/ odd)
                kept == SubSeq(x.frac, 1, keep)
                inc == Incr(kept)
            IN IF up THEN Fx(x.int + inc.carry, inc.bits \o Zeros(FracBits - keep))
               ELSE Fx(x.int, kept \o Zeros(FracBits - keep))

\* (n * 2^k) mod d: the remainder of the long division of n by d after k
\* binary digits
RECURSIVE RemAfter(_, _, _)
RemAfter(n, d, k) ==
    IF k = 0 THEN n
    ELSE IF k >= 8 THEN (256 * RemAfter(n, d, k - 8)) % d
    ELSE (2 * RemAfter(n, d, k - 1)) % d

\* the first FracBits binary digits of n / d (n < d) and the remainder left
DivBits(n, d) ==
    [bits |-> [k \in 1..FracBits |-> IF 2 * RemAfter(n, d, k - 1) >= d THEN 1 ELSE 0],
     rem |-> RemAfter(n, d, FracBits)]

\* n / d of two ints, n < d
FDiv(n, d) ==
    LET q == DivBits(n, d) IN RoundTo(Fx(0, q.bits), q.rem # 0)

\* the carry into digit i of a + b (i = 0: into the integer part): some later
\* digit generates a carry and every digit between passes it on
CarryInto(a, b, i) ==
    IF \E j \in (i + 1)..Len(a) :
          /\ a[j] + b[j] = 2
          /\ \A k \in (i + 1)..(j - 1) : a[k] + b[k] = 1
    THEN 1 ELSE 0

\* x + y, exactly
FxAdd(x, y) ==
    Fx(x.int + y.int + CarryInto(x.frac, y.frac, 0),
       [i \in 1..FracBits |-> (x.frac[i] + y.frac[i] + CarryInto(x.frac, y.frac, i)) % 2])

\* the borrow from digit i of a - b (i = 0: from the integer part)
BorrowFrom(a, b, i) ==
    IF \E j \in (i + 1)..Len(a) :
          /\ a[j] < b[j]
          /\ \A k \in (i + 1)..(j - 1) : a[k] = b[k]
    THEN 1 ELSE 0

\* x < y
FxLess(x, y) ==
    \/ x.int < y.int
    \/ /\ x.int = y.int
       /\ \E i \in 1..FracBits :
            /\ x.frac[i] < y.frac[i]
            /\ \A j \in 1..(i - 1) : x.frac[j] = y.frac[j]

\* x - y for y <= x, exactly
FxSub(x, y) ==
    Fx(x.int - y.int - BorrowFrom(x.frac, y.frac, 0),
       [i \in 1..FracBits |->
           (2 + x.frac[i] - y.frac[i] - BorrowFrom(x.frac, y.frac, i)) % 2])

\* the float operations x + y and x - y
FAdd(x, y) == RoundTo(FxAdd(x, y), FALSE)
FSub(x, y) == RoundTo(FxSub(x, y), FALSE)

RECURSIVE BitsVal(_)
BitsVal(bits) ==
    IF bits = <<>> THEN 0
    ELSE 2 * BitsVal(SubSeq(bits, 1, Len(bits) - 1)) + bits[Len(bits)]

RECURSIVE Pow(_, _)
Pow(b, k) == IF k = 0 THEN 1 ELSE b * Pow(b, k - 1)

\* x * 2^k, exactly
Shl(x, k) ==
    Fx(x.int * Pow(2, k) + BitsVal(SubSeq(x.frac, 1, k)),
       SubSeq(x.frac, k + 1, FracBits) \o Zeros(k))

\* round(x, 2), in hundredths: the integer nearest to the exact 100 * x, ties to
\* even (100 = 64 + 32 + 4)
Round2(x) ==
    LET y == FxAdd(FxAdd(Shl(x, 6), Shl(x, 5)), Shl(x, 2))
        rest == \E i \in 2..FracBits : y.frac[i] = 1
        up == y.frac[1] = 1 /\ (rest \/ y.int % 2 = 1)
    IN y.int + (IF up THEN 1 ELSE 0)

(* ------------------------------ utils.py ------------------------------- *)
Digits == <<"0", "1", "2", "3", "4", "5", "6", "7", "8", "9">>
IsDigit(c) == \E i \in 1..10 : Digits[i] = c
DigitVal(c) == (CHOOSE i \in 1..10 : Digits[i] = c) - 1

\* int(ds) of a string of digits
RECURSIVE NumVal(_)
NumVal(ds) ==
    IF ds = <<>> THEN 0
    ELSE 10 * NumVal(SubSeq(ds, 1, Len(ds) - 1)) + DigitVal(ds[Len(ds)])

\* the character at position i, "" past the end
At(line, i) == IF i \in 1..Len(line) THEN line[i] ELSE ""

\* the number of consecutive digits from position i on
DigitRun(line, i) ==
    LET stops == {j \in i..(Len(line) + 1) : ~IsDigit(At(line, j))}
    IN (CHOOSE j \in stops : \A k \in stops : j <= k) - i

NoTime == [ok |-> FALSE, time |-> FxInt(0)]

\* re.match of \[(\d+):(\d{2})(?:\.(\d{1,3}))?\] at the start of the line:
\* whether it matches, and int(group 1), int(group 2), group 3 or "0"
TimeMatch(line) ==
    LET n1 == DigitRun(line, 2)
        colon == 2 + n1
        after == colon + 3
        n3 == DigitRun(line, after + 1)
        head == /\ At(line, 1) = "["
                /\ n1 >= 1
                /\ At(line, colon) = ":"
                /\ IsDigit(At(line, colon + 1))
                /\ IsDigit(At(line, colon + 2))
        plain == head /\ At(line, after) = "]"
        fractional == /\ head
                      /\ At(line, after) = "."
                      /\ n3 \in 1..3
                      /\ At(line, after + 1 + n3) = "]"
    IN IF plain \/ fractional
       THEN [ok |-> TRUE,
             minutes |-> NumVal(SubSeq(line, 2, colon - 1)),
             seconds |-> NumVal(SubSeq(line, colon + 1, colon + 2)),
             fraction |-> IF fractional THEN SubSeq(line, after + 1, after + n3)
                          ELSE <<"0">>]
       ELSE [ok |-> FALSE, minutes |-> 0, seconds |-> 0, fraction |-> <<"0">>]

\* extract_time(line): None, or
\* minutes * 60 + seconds + int(fraction) / (10 ** len(fraction))
extract_time(line) ==
    LET m == TimeMatch(line) IN
    IF m.ok
    THEN [ok |-> TRUE,
          time |-> FAdd(FxInt(m.minutes * 60 + m.seconds),
                        FDiv(NumVal(m.fraction), Pow(10, Len(m.fraction))))]
    ELSE NoTime

\* str.strip() (of white space)
Blanks == {" ", "\n", "\t"}
RECURSIVE Strip(_)
Strip(s) ==
    IF s = <<>> THEN s
    ELSE IF Head(s) \in Blanks THEN Strip(Tail(s))
    ELSE IF s[Len(s)] \in Blanks THEN Strip(SubSeq(s, 1, Len(s) - 1))
    ELSE s

\* re.sub(r"^\[.*?\]", "", line).strip()
LineText(line) ==
    LET closes == {j \in 1..Len(line) : line[j] = "]"} IN
    IF At(line, 1) = "[" /\ closes # {}
    THEN Strip(SubSeq(line, 1 + (CHOOSE j \in closes : \A k \in closes : j <= k),
                      Len(line)))
    ELSE Strip(line)

\* the interlude marker, the one character U+266A (an eighth note)
Marker == "U+266A"

\* gap = time - prev_time; gap > gap_threshold
GapExceeds(time, prev_time, gap_threshold) ==
    /\ ~FxLess(time, prev_time)
    /\ FxLess(FxInt(gap_threshold), FSub(time, prev_time))

\* the loop of detect_verses from line i (1-based) on, with prev_time = prev
RECURSIVE VersesFrom(_, _, _, _)
VersesFrom(data, i, prev, gap_threshold) ==
    IF i > Len(data) THEN <<>>
    ELSE LET m == extract_time(data[i]) IN
         IF ~m.ok THEN VersesFrom(data, i + 1, prev, gap_threshold)
         ELSE LET text == LineText(data[i])
                  starts == \/ ~prev.ok
                            \/ GapExceeds(m.time, prev.time, gap_threshold)
                            \/ \E k \in 1..Len(text) : text[k] = Marker
              IN (IF starts
                  THEN <<[index |-> i - 1, start_time |-> Round2(m.time),
                          first_line |-> text]>>
                  ELSE <<>>)
                 \o VersesFrom(data, i + 1, m, gap_threshold)

\* detect_verses(data, gap_threshold); start_time is in hundredths of a second
detect_verses(data, gap_threshold) == VersesFrom(data, 1, NoTime, gap_threshold)

(* ------------------------------- lyrics -------------------------------- *)
\* gap_threshold=8.0 (line 704 of app.py, and the default)
GapThreshold == 8
\* Times of verses are in hundredths of a second.
NoSource == ""
\* -1, the start and end time of a verse without a timestamp
UnknownTime == -100
\* next_song_dt["timestamp"] when there is no verse with a time
DefaultStart == 20

\* The "data" of a lyrics response: absent, the dict built for the lyrics of
\* YouTube Music, or what the RapidAPI reply holds (a list of lines)
NoLyrics == [kind |-> "none", lyrics |-> <<>>, source |-> NoSource, lines |-> <<>>]
YtData(lyrics) == [kind |-> "dict", lyrics |-> lyrics, source |-> "YT", lines |-> <<>>]
ListData(lines) == [kind |-> "list", lyrics |-> <<>>, source |-> NoSource, lines |-> lines]

\* fetch_lyrics(title, artist, browseId): yt_reply is what yt.get_lyrics does,
\* key whether RAPIDAPI_KEY is set, rapid_reply what the RapidAPI request does
fetch_lyrics(browseId, yt_reply, key, rapid_reply) ==
    IF browseId # NoId /\ yt_reply.kind = "lyrics"
    THEN [status |-> 200, data |-> YtData(yt_reply.lyrics), source |-> NoSource]
    ELSE IF ~key
    THEN [status |-> 404, data |-> NoLyrics, source |-> NoSource]
    ELSE IF rapid_reply.kind = "ok"
    THEN [status |-> 200, data |-> ListData(rapid_reply.data), source |-> "RapidAPI"]
    ELSE IF rapid_reply.kind = "http_error"
    THEN [status |-> 502, data |-> NoLyrics, source |-> NoSource]
    ELSE [status |-> StatusError, data |-> NoLyrics, source |-> NoSource]

\* raw_text.split("\n\n")
RECURSIVE SplitBlocks(_)
SplitBlocks(text) ==
    LET breaks == {i \in 1..(Len(text) - 1) : text[i] = "\n" /\ text[i + 1] = "\n"} IN
    IF breaks = {} THEN <<text>>
    ELSE LET i == CHOOSE j \in breaks : \A k \in breaks : j <= k IN
         <<SubSeq(text, 1, i - 1)>> \o SplitBlocks(SubSeq(text, i + 2, Len(text)))

\* block.strip().split("\n")[0]
FirstLine(block) ==
    LET b == Strip(block)
        nl == {i \in 1..Len(b) : b[i] = "\n"} IN
    IF nl = {} THEN b
    ELSE SubSeq(b, 1, (CHOOSE j \in nl : \A k \in nl : j <= k) - 1)

\* the loop over enumerate(blocks)
RECURSIVE ParagraphVerses(_, _)
ParagraphVerses(blocks, i) ==
    IF i > Len(blocks) THEN <<>>
    ELSE (IF Strip(blocks[i]) # <<>>
          THEN <<[index |-> i - 1,
                  start_time |-> IF i - 1 = 0 THEN 0 ELSE UnknownTime,
                  end_time |-> UnknownTime,
                  first_line |-> FirstLine(blocks[i]),
                  text |-> Strip(blocks[i])]>>
          ELSE <<>>)
         \o ParagraphVerses(blocks, i + 1)

\* what `for i, line in enumerate(data)` of detect_verses runs over: the lines
\* of a list, the keys of a dict
DataItems(data) ==
    IF data.kind = "dict"
    THEN <<<<"l", "y", "r", "i", "c", "s">>, <<"s", "o", "u", "r", "c", "e">>,
           <<"p", "r", "o", "v", "i", "d", "e", "r">>>>
    ELSE data.lines

\* `if lyrics_data:`
Truthy(data) == data.kind = "dict" \/ (data.kind = "list" /\ data.lines # <<>>)

\* lines 684-706 of get_track_lyrics_by_index: the verses of a lyrics response
LyricsVerses(lyrics_response) ==
    LET lyrics_data == lyrics_response.data IN
    IF ~Truthy(lyrics_data) THEN <<>>
    ELSE IF lyrics_response.source = "YT"
    THEN ParagraphVerses(SplitBlocks(lyrics_data.lyrics), 1)
    ELSE detect_verses(DataItems(lyrics_data), GapThreshold)

\* lines 708-716: next_song_dt after the lookup of track t gave `verses`
NextSong(t, verses) ==
    [title |-> t.title, videoId |-> t.videoId,
     timestamp |-> IF verses # <<>> /\ verses[1].start_time >= 0
                   THEN verses[1].start_time \div 100
                   ELSE DefaultStart]

\* t.get("browseId"): no track of out_tracks has the key (process_results and
\* process_radio_tracks build none)
BrowseId(t) == NoId

(* ------------------------- inputs of the handlers ---------------------- *)
\* the sequences over S of length at most n
SeqUpTo(S, n) == UNION {[1..k -> S] : k \in 0..n}

Raw(title, videoId, type) == [title |-> title, videoId |-> videoId, type |-> type]

\* what the clients and the upstream catalogue may supply in the hub runs
HubU ==
    [maxReqs |-> MaxHubReqs, queries |-> {<<"m">>}, limits |-> {2},
     videoIds |-> {"a"}, vols |-> {DefaultVol}, refreshes |-> {FALSE},
     resps |-> {<<Raw(<<"x">>, "a", "")>>}]

\* ... and in the aggregation runs
AggRecords ==
    {Raw(<<"M">>, "a", ""), Raw(<<"x">>, "a", ""), Raw(<<"x">>, "b", OfficialRelease)}
AggU ==
    [maxReqs |-> MaxReqs, queries |-> {<<"m">>}, limits |-> {2},
     videoIds |-> {NoId, "a"}, vols |-> {DefaultVol}, refreshes |-> BOOLEAN,
     resps |-> SeqUpTo(AggRecords, MaxResp)]

RecNext(U) ==
    \/ \E q \in U.queries, l \in U.limits, np \in BOOLEAN, v \in U.vols,
          id \in U.videoIds, rf \in U.refreshes :
            RecStart(q, l, np, v, id, rf, U.maxReqs)
    \/ RecSendDone
    \/ RecSendFail
    \/ \E s \in U.resps, v \in U.resps : RecSearch(s, v)
    \/ \E s \in U.resps, v \in U.resps : RecFinish(s, v)

RadioNext(U) ==
    \/ \E id \in U.videoIds \ {NoId} : RadioStart(id, U.maxReqs)
    \/ \E id \in U.videoIds \ {NoId} : RadioResolved(id)
    \/ \E a \in U.resps, v \in U.resps : RadioPublish(a, v)
    \/ \E failed \in SUBSET RadioFetches : RadioFail(failed)

(* --------------------------- specification ----------------------------- *)
\* no function is run on its own
NoCall == [fn |-> "none"]
NoRet == [done |-> FALSE, val |-> <<>>]
\* line 60: next_song_dt before any lookup
NoNextSong == [title |-> NoStr, videoId |-> NoId, timestamp |-> DefaultStart]
\* no request for /track/{idx}/ has arrived
IdleReader == [pc |-> "idle", idx |-> 0, status |-> NoStatus, t |-> <<>>, n |-> 0]

Init ==
    /\ all_connections = <<>>
    /\ player_connections = <<>>
    /\ controller_connections = <<>>
    /\ maxVol = DefaultVol
    /\ hpc = [x \in Conns |-> "new"]
    /\ bc = [t \in Tasks |-> IdleBc]
    /\ wire = [t \in Tasks |-> EmptyWire]
    /\ dropped = {}
    /\ lastVol = DefaultVol
    /\ nmsg = 0
    /\ out_tracks = <<>>
    /\ pubseq = 0
    /\ RESULT_CACHE = <<>>
    /\ rq = IdleRq
    /\ rd = IdleRd
    /\ nreq = 0
    /\ call = NoCall
    /\ ret = NoRet
    /\ reader = IdleReader
    /\ next_song_dt = NoNextSong

HubNext ==
    \/ \E x \in Conns : \E r \in RoleChoices(x) : Connect(x, r)
    \/ \E x \in Conns : ConnectFail(x)
    \/ \E x \in Conns : InitDone(x)
    \/ \E x \in Conns : InitFail(x)
    \/ \E x \in Conns, m \in Inbound, renders \in BOOLEAN : Receive(x, m, renders)
    \/ \E x \in Conns : ClientDisconnect(x)
    \/ \E x \in Conns : ReplyDone(x)
    \/ \E x \in Conns : ReplyFail(x)
    \/ \E x \in Conns : SendDone(x)
    \/ \E x \in Conns : SendFail(x)

\* the hub with the /recommendations/ handler running beside it
Next ==
    \/ HubNext
    \/ RecNext(HubU)

Spec == Init /\ [][Next]_vars

\* the aggregation handlers beside a hub whose clients have all connected
\* (Connect and InitDone of each, in turn) and stay silent
InitAgg ==
    /\ all_connections = [i \in 1..MaxConn |-> i]
    /\ player_connections = SelectSeq(all_connections, LAMBDA c : "player" \in RoleChoices(c))
    /\ controller_connections =
         SelectSeq(all_connections, LAMBDA c : "player" \notin RoleChoices(c))
    /\ maxVol = DefaultVol
    /\ hpc = [x \in Conns |-> "recv"]
    /\ bc = [t \in Tasks |-> IdleBc]
    /\ wire = [t \in Tasks |-> EmptyWire]
    /\ dropped = {}
    /\ lastVol = DefaultVol
    /\ nmsg = 0
    /\ out_tracks = <<>>
    /\ pubseq = 0
    /\ RESULT_CACHE = <<>>
    /\ rq = IdleRq
    /\ rd = IdleRd
    /\ nreq = 0
    /\ call = NoCall
    /\ ret = NoRet
    /\ reader = IdleReader
    /\ next_song_dt = NoNextSong

NextAgg ==
    \/ RecNext(AggU)
    \/ RadioNext(AggU)

SpecAgg == InitAgg /\ [][NextAgg]_vars

\* reorder_for_selection run on its own: a branch of at most MaxTracks processed
\* tracks, a target id (absent, in the catalogue, or foreign to it), the query
ReorderTitles == {<<"M">>, <<"M", "x">>, <<"x">>}
ReorderTracks ==
    {MakeTrack(Raw(t, i, ""), "song") : t \in ReorderTitles, i \in {"a", "b"}}
ReorderCalls ==
    {[fn |-> "reorder_for_selection", tracks |-> t, tid |-> i, q |-> <<"m">>,
      is_refresh |-> b] :
        t \in SeqUpTo(ReorderTracks, MaxTracks), i \in {NoId, "a", "c"}, b \in BOOLEAN}

\* the server before any client or request
ProgramIdle ==
    /\ all_connections = <<>>
    /\ player_connections = <<>>
    /\ controller_connections = <<>>
    /\ maxVol = DefaultVol
    /\ hpc = [x \in Conns |-> "new"]
    /\ bc = [t \in Tasks |-> IdleBc]
    /\ wire = [t \in Tasks |-> EmptyWire]
    /\ dropped = {}
    /\ lastVol = DefaultVol
    /\ nmsg = 0
    /\ out_tracks = <<>>
    /\ pubseq = 0
    /\ RESULT_CACHE = <<>>
    /\ rq = IdleRq
    /\ rd = IdleRd
    /\ nreq = 0

\* lines 395-503 run on their own: the branches built from the four upstream
\* responses of one request (the video side is given the same records by its
\* search and by its recommendation call)
BranchCalls ==
    {[fn |-> "branches", song_search |-> ss, song_recs |-> sr, video_search |-> vs,
      video_recs |-> vs, limit |-> l, nextPlay |-> np, videoId |-> id, q |-> <<"m">>] :
        ss \in SeqUpTo(AggRecords, MaxFetched), sr \in SeqUpTo(AggRecords, MaxFetched),
        vs \in SeqUpTo({Raw(<<"x">>, "b", "")}, MaxFetched),
        l \in {1, 2}, np \in BOOLEAN, id \in {NoId, "a"}}

\* detect_verses run on its own. The lines: the three of the example of
\* utils.py, two pairs of lines 8.00 s apart, a line with the interlude marker
\* and a line without a timestamp
LrcLines ==
    {<<"[", "0", "0", ":", "3", "3", ".", "7", "1", "]", "A">>,
     <<"[", "0", "0", ":", "3", "9", ".", "4", "7", "]", "B">>,
     <<"[", "0", "0", ":", "8", "5", ".", "5", "7", "]", " ", "C">>,
     <<"[", "0", "0", ":", "4", "1", ".", "7", "1", "]", "D">>,
     <<"[", "0", "0", ":", "0", "8", ".", "1", "2", "]", "a">>,
     <<"[", "0", "0", ":", "1", "6", ".", "1", "2", "]", "b">>,
     <<"[", "0", "0", ":", "4", "0", ".", "0", "0", "]", Marker>>,
     <<"x">>}
VerseCalls ==
    {[fn |-> "detect_verses", data |-> d, gap_threshold |-> GapThreshold] :
        d \in SeqUpTo(LrcLines, MaxLines)}

\* fetch_lyrics and the lyrics part of /track/{idx}/ run on their own
LyricsTexts ==
    {<<"a", "\n", "b", "\n", "\n", "c">>, <<"a">>, <<"\n", "\n", "b">>, <<>>}
YtReplies ==
    {[kind |-> "none", lyrics |-> <<>>], [kind |-> "raises", lyrics |-> <<>>]}
    \cup {[kind |-> "lyrics", lyrics |-> x] : x \in LyricsTexts}
RapidLines ==
    {<<"x">>,
     <<"[", "0", "0", ":", "3", "3", ".", "7", "1", "]", "A">>,
     <<"[", "0", "1", ":", "0", "2", ".", "5", "]", "C">>}
RapidReplies ==
    {[kind |-> "http_error", data |-> <<>>], [kind |-> "raises", data |-> <<>>]}
    \cup {[kind |-> "ok", data |-> d] : d \in SeqUpTo(RapidLines, 2)}
LyricsTracks == {MakeTrack(Raw(<<"x">>, "a", ""), "song")}
LyricsCalls ==
    {[fn |-> "fetch_lyrics", browseId |-> b, yt |-> y, key |-> k, rapid |-> r] :
        b \in {NoId, "B"}, y \in YtReplies, k \in BOOLEAN, r \in RapidReplies}
TrackCalls ==
    {[fn |-> "track_lyrics", t |-> t, yt |-> y, key |-> k, rapid |-> r] :
        t \in LyricsTracks, y \in YtReplies, k \in BOOLEAN, r \in RapidReplies}

InitFn ==
    /\ ProgramIdle
    /\ call \in ReorderCalls \cup BranchCalls \cup VerseCalls \cup LyricsCalls \cup TrackCalls
    /\ ret = NoRet
    /\ reader = IdleReader
    /\ next_song_dt = NoNextSong

\* the call returns one of the lists the shuffles allow
Reorder ==
    /\ call.fn = "reorder_for_selection"
    /\ ~ret.done
    /\ \E o \in reorder_for_selection(call.tracks, call.tid, call.q, call.is_refresh) :
         ret' = [done |-> TRUE, val |-> o]
    /\ UNCHANGED <<hubVars, aggVars, call, reader, next_song_dt>>

\* the request record of lines 232-250 and 395-397 for a call of BranchCalls
BranchRq(c) ==
    LET target == IF c.nextPlay THEN c.videoId ELSE NoId
        exclude == IF c.nextPlay THEN Lower(c.q) ELSE NoStr
    IN [IdleRq EXCEPT !.pc = "phase2", !.query = c.q, !.limit = c.limit,
                      !.nextPlay = c.nextPlay, !.videoId = c.videoId,
                      !.target_id = target, !.exclude_title = exclude,
                      !.song_tracks = process_results(c.song_search, "song", exclude),
                      !.video_tracks = process_results(c.video_search, "video", exclude)]

\* lines 395-503: the searches are processed, the branches extended by the
\* recommendations and, for a selection, reordered
BuildBranches ==
    /\ call.fn = "branches"
    /\ ~ret.done
    /\ \E b \in Branches(BranchRq(call),
                         Expanded(BranchRq(call), call.song_recs, call.video_recs)) :
         ret' = [done |-> TRUE, val |-> b]
    /\ UNCHANGED <<hubVars, aggVars, call, reader, next_song_dt>>

DetectVerses ==
    /\ call.fn = "detect_verses"
    /\ ~ret.done
    /\ ret' = [done |-> TRUE, val |-> detect_verses(call.data, call.gap_threshold)]
    /\ UNCHANGED <<hubVars, aggVars, call, reader, next_song_dt>>

FetchLyrics ==
    /\ call.fn = "fetch_lyrics"
    /\ ~ret.done
    /\ ret' = [done |-> TRUE,
               val |-> fetch_lyrics(call.browseId, call.yt, call.key, call.rapid)]
    /\ UNCHANGED <<hubVars, aggVars, call, reader, next_song_dt>>

\* lines 677-718 of get_track_lyrics_by_index, for the track t of out_tracks
TrackLyrics ==
    /\ call.fn = "track_lyrics"
    /\ ~ret.done
    /\ LET lyrics_response == fetch_lyrics(BrowseId(call.t), call.yt, call.key, call.rapid)
           verses == LyricsVerses(lyrics_response)
       IN ret' = [done |-> TRUE,
                  val |-> [verse |-> verses,
                           source |-> IF lyrics_response.source = NoSource
                                      THEN "Unknown" ELSE lyrics_response.source,
                           videoId |-> call.t.videoId]]
          /\ next_song_dt' = NextSong(call.t, verses)
    /\ UNCHANGED <<hubVars, aggVars, call, reader>>

NextFn ==
    \/ Reorder
    \/ BuildBranches
    \/ DetectVerses
    \/ FetchLyrics
    \/ TrackLyrics

SpecFn == InitFn /\ [][NextFn]_vars

(* ------------- get_track_lyrics_by_index beside a publication ----------- *)
\* /track/{idx}/ is a plain `def`: it runs in a threadpool thread, which the
\* interpreter may schedule between any two statements of the event-loop
\* thread. The publication of lines 809-811 is therefore taken statement by
\* statement here: RadioBind then one RadioIndex per entry make up RadioPublish.

\* line 809: out_tracks = audio_tracks + video_tracks
RadioBind(raw_audio, raw_video) ==
    /\ LoopFree
    /\ rd.pc = "fetching"
    /\ out_tracks' = process_radio_tracks(raw_audio, "Radio Mix")
                       \o process_radio_tracks(raw_video, "Video Mix")
    /\ pubseq' = rd.seq
    /\ rd' = [rd EXCEPT !.pc = "indexing", !.audio_task = "done", !.video_task = "done"]
    /\ UNCHANGED <<hubVars, RESULT_CACHE, rq, nreq>>
    /\ UNCHANGED offLoopVars

\* lines 810-818: t["index"] = idx for the next entry, or the return
RadioIndex ==
    /\ rd.pc = "indexing"
    /\ LET todo == {i \in 1..Len(out_tracks) : out_tracks[i].index = NoIndex} IN
       IF todo = {}
       THEN /\ rd' = [IdleRd EXCEPT !.status = StatusOk]
            /\ UNCHANGED out_tracks
       ELSE LET i == CHOOSE j \in todo : \A k \in todo : j <= k IN
            /\ out_tracks' = [out_tracks EXCEPT ![i].index = i - 1]
            /\ UNCHANGED rd
    /\ UNCHANGED <<hubVars, pubseq, RESULT_CACHE, rq, nreq>>
    /\ UNCHANGED offLoopVars

\* the positions a client asks for
ReadIdx == -1..1
\* HTTPException(status_code=400)
StatusBadRequest == 400

\* lines 638-649: a request for position idx arrives; a negative idx is
\* refused before the try block
ReadStart(idx) ==
    /\ reader.pc \in {"idle", "done"}
    /\ reader.n < MaxReads
    /\ reader' = IF idx < 0
                 THEN [pc |-> "done", idx |-> idx, status |-> StatusBadRequest,
                       t |-> <<>>, n |-> reader.n + 1]
                 ELSE [pc |-> "len", idx |-> idx, status |-> NoStatus, t |-> <<>>,
                       n |-> reader.n + 1]
    /\ UNCHANGED <<hubVars, aggVars, fnVars, next_song_dt>>

\* lines 653-655, 674-675: idx is tested against len(out_tracks); the
\* HTTPException(400) is raised inside the try and leaves as a 500
ReadLen ==
    /\ reader.pc = "len"
    /\ reader' = IF reader.idx >= Len(out_tracks)
                 THEN [reader EXCEPT !.pc = "done", !.status = StatusError]
                 ELSE [reader EXCEPT !.pc = "get"]
    /\ UNCHANGED <<hubVars, aggVars, fnVars, next_song_dt>>

\* the lyrics replies of the lookups that run beside an aggregation (YouTube
\* Music is not asked: the tracks have no browseId)
NoYtReply == [kind |-> "none", lyrics |-> <<>>]
ReadReplies == {r \in RapidReplies : Len(r.data) <= 1}

\* lines 658-718: t = out_tracks[idx] (an IndexError leaves as a 500); t is
\* kept as it is at the time of the read; the lyrics are fetched, the verses
\* built and next_song_dt set
ReadGet(yt_reply, key, rapid_reply) ==
    /\ reader.pc = "get"
    /\ IF reader.idx >= Len(out_tracks)
       THEN /\ reader' = [reader EXCEPT !.pc = "done", !.status = StatusError]
            /\ UNCHANGED next_song_dt
       ELSE LET t == out_tracks[reader.idx + 1]
                verses == LyricsVerses(fetch_lyrics(BrowseId(t), yt_reply, key,
                                                    rapid_reply))
            IN /\ reader' = [reader EXCEPT !.pc = "done", !.status = StatusOk,
                                           !.t = <<t>>]
               /\ next_song_dt' = NextSong(t, verses)
    /\ UNCHANGED <<hubVars, aggVars, fnVars>>

NextRead ==
    \/ \E id \in AggU.videoIds \ {NoId} : RadioStart(id, AggU.maxReqs)
    \/ \E id \in AggU.videoIds \ {NoId} : RadioResolved(id)
    \/ \E a \in AggU.resps, v \in AggU.resps : RadioBind(a, v)
    \/ RadioIndex
    \/ \E failed \in SUBSET RadioFetches : RadioFail(failed)
    \/ \E idx \in ReadIdx : ReadStart(idx)
    \/ ReadLen
    \/ \E k \in BOOLEAN, r \in ReadReplies : ReadGet(NoYtReply, k, r)

SpecRead == Init /\ [][NextRead]_vars

(* ------------------- the executor jobs of start_radio_mode ------------- *)
\* fetch_playlist_blocking returns in its worker thread, at any time after the
\* job was submitted; gather (RadioPublish, RadioFail) returns once both have
PlaylistFetched(job) ==
    /\ \/ /\ job = "audio"
          /\ rd.audio_task = "running"
          /\ rd' = [rd EXCEPT !.audio_task = "done"]
       \/ /\ job = "video"
          /\ rd.video_task = "running"
          /\ rd' = [rd EXCEPT !.video_task = "done"]
    /\ UNCHANGED <<hubVars, out_tracks, pubseq, RESULT_CACHE, rq, nreq>>
    /\ UNCHANGED offLoopVars

\* the watch playlist may hold an entry without a title, and one whose title
\* says "Official Video"
OfficialTitle == <<"O", "f", "f", "i", "c", "i", "a", "l", " ", "V", "i", "d", "e", "o">>
RadioRecords == AggRecords \cup {Raw(NoStr, "b", ""), Raw(OfficialTitle, "a", "")}
RadioU == [AggU EXCEPT !.resps = SeqUpTo(RadioRecords, MaxResp)]

NextRadio ==
    \/ RadioNext(RadioU)
    \/ \E job \in RadioFetches : PlaylistFetched(job)

SpecRadio == InitAgg /\ [][NextRadio]_vars

(* ------------- the upstream calls of get_recommendations_as_webview ----- *)
\* a fetch_* function returns in its worker thread; .result() (RecSearch,
\* RecFinish) returns once the calls of the phase have
UpstreamReturned(c) ==
    /\ c \in rq.flight
    /\ rq' = [rq EXCEPT !.flight = rq.flight \ {c}]
    /\ UNCHANGED <<hubVars, out_tracks, pubseq, RESULT_CACHE, rd, nreq>>
    /\ UNCHANGED offLoopVars

\* one request at a time
CallsU == [AggU EXCEPT !.maxReqs = MaxHubReqs]

NextCalls ==
    \/ RecNext(CallsU)
    \/ \E c \in SearchCalls \cup RecsCalls : UpstreamReturned(c)

SpecCalls == InitAgg /\ [][NextCalls]_vars

(* ----------------------- the result cache in use ----------------------- *)
\* three requests, one after the other, for one query and one videoId
CacheU ==
    [AggU EXCEPT !.maxReqs = MaxCacheReqs, !.videoIds = {"a"},
                 !.refreshes = {FALSE}]

NextCache ==
    \/ RecNext(CacheU)
    \/ RadioNext(CacheU)

SpecCache == InitAgg /\ [][NextCache]_vars

(* ------------------------------- claims -------------------------------- *)
\* C1: the published track list never holds two entries with the same videoId,
\* whatever aggregate operations ran and whatever the upstream returned.
C1_DistinctIds ==
    \A i, j \in 1..Len(out_tracks) :
        i # j => out_tracks[i].videoId # out_tracks[j].videoId

\* C2: the index fields of a published list of n entries are 0..n-1 in list
\* order.
C2_DenseIndex ==
    \A i \in 1..Len(out_tracks) : out_tracks[i].index = i - 1

\* the last request allowed has published a list with a song and a video branch
C2_Witness ==
    /\ Len(out_tracks) >= 3
    /\ out_tracks[1].type = "song"
    /\ out_tracks[Len(out_tracks)].type = "video"
    /\ out_tracks[Len(out_tracks)].index = Len(out_tracks) - 1
    /\ nreq = MaxReqs

\* the connections registered in any of the hub's three lists
Registered ==
    Range(all_connections) \cup Range(player_connections)
        \cup Range(controller_connections)

\* task t enters manager.broadcast in this step
BcEntered(t) == ~bc[t].active /\ bc'[t].active

\* C3: a connection to which a broadcast's send failed is in none of the three
\* lists from the failure on (so also when that broadcast returns), and no
\* broadcast entered afterwards has it among its targets or sends to it.
C3_FailedIsGone ==
    [][/\ dropped' \cap Registered' = {}
       /\ \A t \in Tasks :
            BcEntered(t) =>
                /\ Range(bc'[t].targets) \cap dropped' = {}
                /\ \A c \in dropped' : wire'[t][c] = <<>>]_vars

\* after a failed send of the first relay, a second relay is under way
C3_Witness ==
    /\ dropped # {}
    /\ nmsg = 2
    /\ \E x \in Conns :
         /\ bc[x].active
         /\ bc[x].targets # <<>>
         /\ Range(bc[x].targets) \cap dropped = {}
         /\ \A t \in Tasks \ {x} : ~bc[t].active

\* the relay that connection x's handler runs for a message of type ty returns in
\* this step
RelayReturns(x, ty) == bc[x].active /\ bc[x].msg.type = ty /\ ~bc'[x].active

\* the send_json calls task t's broadcast has made when it returns: one of its
\* message to every connection of its snapshot but the sender, none to the sender
SentToSnapshot(t) ==
    \A c \in Conns :
        wire[t][c] = IF c \in Range(bc[t].targets) /\ c # bc[t].sender
                     THEN <<bc[t].msg>> ELSE <<>>

\* C4 as stated: when the handling of a vol message with volume v from X ends,
\* maxVol is v, every other connection registered at that moment has been sent that
\* message, and X has not. (A connection that registered while the relay ran is
\* not counted: it is sent the stored volume by its own opening push.)
C4_AsStated ==
    [][\A x \in Conns :
         RelayReturns(x, "vol") =>
            /\ maxVol' = bc[x].msg.data.volume
            /\ \A c \in (Range(all_connections') \cap Range(bc[x].targets)) \ {x} :
                  wire[x][c] = <<bc[x].msg>>
            /\ wire[x][x] = <<>>]_vars

\* C4 amended: reading a vol message with volume v from X sets maxVol to v before
\* any relay send begins and starts a relay of that message to the connections
\* registered at that moment; when the relay returns every one of them but X has
\* been sent the message once, and X has not been sent it.
C4_VolStoredAndRelayed ==
    [][\A x \in Conns :
         /\ \A v \in VolValues :
               Receive(x, Msg("vol", VolData(v)), TRUE) =>
                  /\ maxVol' = v
                  /\ IF Range(all_connections) \subseteq {x}
                     THEN ~bc'[x].active
                     ELSE /\ bc'[x].active
                          /\ bc'[x].msg = Msg("vol", VolData(v))
                          /\ bc'[x].targets = all_connections
                          /\ bc'[x].sender = x
         /\ RelayReturns(x, "vol") => SentToSnapshot(x)]_vars

\* the last send of a vol relay to two other connections is pending, with the
\* relayed volume still the stored one
C4_Witness ==
    \E x \in Conns :
        /\ bc[x].active
        /\ bc[x].msg.type = "vol"
        /\ bc[x].todo = <<>>
        /\ Len(bc[x].targets) = MaxConn
        /\ \A c \in Conns \ {x} : wire[x][c] = <<bc[x].msg>>
        /\ maxVol = bc[x].msg.data.volume

\* C5: maxVol is changed by the hub alone: no step of an aggregate operation
\* (a step of the /recommendations/ or /radio/ handler) changes it.
C5_AggregateKeepsVol ==
    [][aggVars' # aggVars => maxVol' = maxVol]_vars

\* connection x is opened in this step: it is registered and its first send begun
Opened(x) == hpc[x] = "new" /\ hpc'[x] = "init"

\* C6: the first message sent on a newly opened connection is a vol message that
\* carries the volume of the latest vol message the hub handled (100 if there was
\* none), whatever aggregate operations ran in between.
C6_OpeningPushIsLastVol ==
    [][\A x \in Conns :
         Opened(x) => wire'[x][x] = <<Msg("vol", VolData(lastVol))>>]_vars

\* the play and control messages a client may send
PassMsgs == {m \in Inbound : m.type \in {"play", "control"}}

\* C7: reading a play or control message from X changes neither maxVol nor
\* out_tracks and starts a relay of the same type and data to the connections
\* registered at that moment; no step of that relay changes maxVol or out_tracks,
\* and when it returns every one of those connections but X has been sent the
\* message once, and X has not been sent it.
C7_PassThrough ==
    [][\A x \in Conns :
         /\ \A m \in PassMsgs :
               Receive(x, m, TRUE) =>
                  /\ maxVol' = maxVol /\ out_tracks' = out_tracks
                  /\ IF Range(all_connections) \subseteq {x}
                     THEN ~bc'[x].active
                     ELSE /\ bc'[x].active
                          /\ bc'[x].msg = m
                          /\ bc'[x].targets = all_connections
                          /\ bc'[x].sender = x
         /\ \A ty \in {"play", "control"} :
               /\ (bc[x].active /\ bc[x].msg.type = ty /\ bc'[x] # bc[x]) =>
                     (maxVol' = maxVol /\ out_tracks' = out_tracks)
               /\ RelayReturns(x, ty) => SentToSnapshot(x)]_vars

\* the last send of a control relay to two other connections is pending
C7_Witness ==
    \E x \in Conns :
        /\ bc[x].active
        /\ bc[x].msg = Msg("control", TagData("d1"))
        /\ bc[x].todo = <<>>
        /\ Len(bc[x].targets) = MaxConn
        /\ \A c \in Conns \ {x} : wire[x][c] = <<bc[x].msg>>
        /\ wire[x][x] = <<>>

\* the three lists after this step
ListsNext == [all |-> all_connections', player |-> player_connections',
              controller |-> controller_connections']

\* connection x's handler begins to send one message of type ty (about url u) to
\* x and nothing to anybody else, and leaves maxVol, the three lists and every
\* broadcast as they were
RepliesOnlyTo(x, ty, u) ==
    /\ Len(wire'[x][x]) = 1
    /\ wire'[x][x][1].type = ty
    /\ wire'[x][x][1].data.url = u
    /\ \A c \in Conns \ {x} : wire'[x][c] = <<>>
    /\ \A t \in Tasks \ {x} : wire'[t] = wire[t]
    /\ bc' = bc
    /\ maxVol' = maxVol
    /\ ListsNext = Lists

\* C8 as stated: every ping and every qr message read from X starts a reply (pong,
\* respectively qr) to X alone and leaves maxVol and the three lists unchanged.
C8_AsStated ==
    [][\A x \in Conns, renders \in BOOLEAN :
         /\ Receive(x, Msg("ping", NoData), renders) => RepliesOnlyTo(x, "pong", "")
         /\ \A d \in {UrlData("u1"), UrlData(""), NoData} :
               Receive(x, Msg("qr", d), renders) => RepliesOnlyTo(x, "qr", d.url)]_vars

\* C8 amended: a ping, and a qr message whose data holds a non-empty url that
\* renders, starts one reply (pong, respectively qr carrying that url) to
\* X alone and leaves maxVol, the three lists and every broadcast unchanged; the
\* step that ends the reply sends nothing, leaves maxVol unchanged and leaves the
\* lists unchanged unless the send failed, in which case X alone is removed.
C8_ReplyToSenderOnly ==
    [][\A x \in Conns :
         /\ \A renders \in BOOLEAN :
               Receive(x, Msg("ping", NoData), renders) => RepliesOnlyTo(x, "pong", "")
         /\ Receive(x, Msg("qr", UrlData("u1")), TRUE) => RepliesOnlyTo(x, "qr", "u1")
         /\ (hpc[x] = "reply" /\ hpc'[x] # "reply") =>
               /\ wire' = [wire EXCEPT ![x] = EmptyWire]
               /\ bc' = bc
               /\ maxVol' = maxVol
               /\ \/ ListsNext = Lists /\ hpc'[x] = "recv"
                  \/ ListsNext = Disconnect(Lists, x) /\ hpc'[x] = "closed"]_vars

\* a qr reply to one of three registered connections is pending
C8_Witness ==
    \E x \in Conns :
        /\ hpc[x] = "reply"
        /\ wire[x][x] # <<>>
        /\ wire[x][x][1].type = "qr"
        /\ wire[x][x][1].data.url = "u1"
        /\ Len(all_connections) = MaxConn
        /\ nmsg = MaxMsgs

\* C9: a step of a broadcast removes no connection but the target whose send just
\* failed, never sends twice to a target, and when the broadcast returns every
\* connection of its snapshot but the sender has been sent the message once,
\* whichever sends failed.
C9_FailureIsLocal ==
    [][\A t \in Tasks :
         (bc[t].active /\ bc'[t] # bc[t]) =>
            /\ ListsNext \in {Lists, Disconnect(Lists, bc[t].cur)}
            /\ \A c \in Conns : Len(wire'[t][c]) <= 1
            /\ ~bc'[t].active => SentToSnapshot(t)]_vars

\* in the only broadcast so far the send to one target has failed and the send to
\* a later target is pending
C9_Witness ==
    /\ nmsg + nreq = 1
    /\ \E t \in Tasks, c \in dropped :
         /\ bc[t].active
         /\ wire[t][c] = <<bc[t].msg>>
         /\ bc[t].cur \notin dropped
         /\ wire[t][bc[t].cur] = <<bc[t].msg>>
         /\ c \notin Registered

\* C10: a broadcast does not block on a slow peer: while a send of connection X's
\* relay is pending, X's handler can read its next message, and while a send of a
\* broadcast is pending with targets left, the send to the next target can begin.
C10_NeverBlocks ==
    /\ \A x \in Conns :
         (hpc[x] = "bcast" /\ nmsg < MaxMsgs /\ LoopFree) =>
            ENABLED (\E m \in Inbound : Receive(x, m, TRUE))
    /\ \A t \in Tasks :
         (bc[t].active /\ SkipSender(bc[t].todo, bc[t].sender) # <<>> /\ LoopFree) =>
            ENABLED (Next /\ bc'[t].cur = bc[t].cur /\ wire'[t] # wire[t])

\* the play, vol and control messages a client may send with a data object
RelayMsgs == {m \in Inbound : m.type \in {"play", "vol", "control"} /\ ~m.data.none}

\* C11: delivery is FIFO per sender: a handler reads the next message of its
\* connection only when the relay of the previous one has returned, that is when
\* every send of the previous message has completed or failed; so no send of a
\* later message of X begins before a send of an earlier one, whatever the other
\* handlers do in between.
C11_FifoPerSender ==
    [][\A x \in Conns :
         /\ \A m \in RelayMsgs :
               Receive(x, m, TRUE) => (~bc[x].active /\ wire[x] = EmptyWire)
         /\ bc'[x].active => hpc'[x] = "bcast"]_vars

\* connection x, the only one that has read anything, has had a vol message
\* relayed and now relays a play message to the same two connections
C11_Witness ==
    \E x \in Conns :
        /\ nmsg = 2
        /\ lastVol # DefaultVol
        /\ bc[x].active
        /\ bc[x].msg.type = "play"
        /\ Len(bc[x].targets) = MaxConn
        /\ \A c \in Conns \ {x} : hpc[c] = "init"

\* C12: once a send of a broadcast to connection C has failed, C is closed: no
\* message is read from C any more.
C12_FailedIsClosed ==
    [][\A c \in dropped : \A m \in Inbound, renders \in BOOLEAN :
         ~Receive(c, m, renders)]_vars

\* C13: a request that selects a track (nextPlay) always goes on to its upstream
\* calls, also when the result cache holds an entry for its key.
C13_SelectNextRecomputes ==
    [][/\ \A q \in AggU.queries, l \in AggU.limits, v \in AggU.vols,
            id \in AggU.videoIds \ {NoId} :
              RecStart(q, l, TRUE, v, id, FALSE, AggU.maxReqs) =>
                 rq'.pc \in {"bcast", "phase1"}
       /\ (rq.pc = "bcast" /\ rq'.pc # "bcast") => rq'.pc = "phase1"]_vars

\* C14: a refresh on a non-empty list publishes a list that does not hold the id
\* of the track that was first before the refresh, in either branch.
C14_RefreshDropsAnchor ==
    [][(rq.pc = "phase2" /\ rq.anchored /\ rq'.pc = "idle") =>
          /\ out_tracks # <<>>
          /\ rq.target_id = out_tracks[1].videoId
          /\ \A i \in 1..Len(out_tracks') :
                out_tracks'[i].videoId # out_tracks[1].videoId]_vars

\* a refresh anchored on the first track of a published list (its query is that
\* track's title) has published a non-empty list
C14_Witness ==
    /\ rq.pc = "idle"
    /\ out_tracks # <<>>
    /\ \E k \in DOMAIN RESULT_CACHE :
         /\ k[1] \notin AggU.queries
         /\ RESULT_CACHE[k].tracks = out_tracks

\* C15: in selectNext mode, a branch that holds a track whose id is the resolved
\* target before the reordering has that track first after it.
C15_TargetFirstInBranch ==
    (/\ ret.done
     /\ call.fn = "reorder_for_selection"
     /\ ~call.is_refresh
     /\ call.tid # NoId
     /\ \E i \in 1..Len(call.tracks) : call.tracks[i].videoId = call.tid)
    => /\ ret.val # <<>>
       /\ ret.val[1].videoId = call.tid

\* the target is the last track of a full branch that starts with another id,
\* and the call moved it to the front
C15_Witness ==
    /\ ret.done
    /\ call.fn = "reorder_for_selection"
    /\ ~call.is_refresh
    /\ Len(call.tracks) = MaxTracks
    /\ call.tracks[MaxTracks].videoId = call.tid
    /\ call.tracks[1].videoId # call.tid
    /\ ret.val[1] = call.tracks[MaxTracks]

\* C16: when a selectNext request with a resolved target id publishes a
\* non-empty list, the entry at position 0 of that list has the target id.
C16_SelectedIsFirst ==
    [][(/\ rq.pc = "phase2"
        /\ rq.nextPlay
        /\ ~rq.refresh
        /\ rq.target_id # NoId
        /\ rq'.pc = "idle"
        /\ out_tracks' # <<>>)
       => out_tracks'[1].videoId = rq.target_id]_vars

\* C17: for a request with limit L and any upstream responses, the song branch
\* and the video branch of the result each hold at most L tracks.
C17_BranchWithinLimit ==
    (ret.done /\ call.fn = "branches")
    => /\ Len(ret.val.song) <= call.limit
       /\ Len(ret.val.video) <= call.limit

\* C18: in every mode the failure of a single upstream call does not fail the
\* aggregation: the request still ends with a successful response (a failed
\* search or recommendation call of /recommendations/ hands the handler []).
C18_SingleFailureTolerated ==
    [][/\ \A f \in RadioFetches : RadioFail({f}) => rd'.status = StatusOk
       /\ (rq.pc = "phase2" /\ rq'.pc = "idle") => rq'.status = StatusOk]_vars

\* C19: a request whose two branches both end up empty is answered with an
\* error outcome, not with a successful response that holds an empty list.
C19_EmptyIsNotFound ==
    [][/\ \A s \in AggU.resps, v \in AggU.resps :
            (RecFinish(s, v) /\ Expanded(rq, s, v) = [song |-> <<>>, video |-> <<>>])
            => rq'.status # StatusOk
       /\ (RadioPublish(<<>>, <<>>) => rd'.status # StatusOk)]_vars

\* C20: a track-at-position lookup that runs beside an aggregation reads from
\* a fully built list: the entry it gets already carries its position.
C20_ReaderSeesBuiltList ==
    (reader.pc = "done" /\ reader.status = StatusOk)
    => reader.t[1].index = reader.idx

\* C21: in radio mode the audio playlist fetch is started with the seed
\* resolution and never waits for it; the video playlist fetch is started only
\* once the resolution has completed; both fetches may be in flight together.
C21_ResolutionGatesVideoOnly ==
    [][/\ (rd.audio_task = "none" /\ rd'.audio_task # "none")
          => rd.resolution_task = "none"
       /\ rd'.resolution_task # "none" => rd'.audio_task # "none"
       /\ (rd.video_task = "none" /\ rd'.video_task # "none")
          => rd'.resolution_task = "done"]_vars

\* both playlist fetches are in flight
C21_Witness ==
    /\ rd.pc = "fetching"
    /\ rd.audio_task = "running"
    /\ rd.video_task = "running"

\* C22: within one /recommendations/ request at most two upstream calls are in
\* flight at any time, and a recommendation call is started only once both
\* searches have completed.
C22_TwoCallsPerPhase ==
    [][/\ Cardinality(rq'.flight) <= 2
       /\ \A c \in RecsCalls :
            (c \notin rq.flight /\ c \in rq'.flight)
            => (rq.pc = "phase1" /\ rq'.flight \cap SearchCalls = {})]_vars

\* both recommendation calls are in flight after both searches returned tracks
C22_Witness ==
    /\ rq.pc = "phase2"
    /\ rq.flight = RecsCalls
    /\ rq.song_tracks # <<>>
    /\ rq.video_tracks # <<>>

\* C23: a stale result never overwrites a newer published list: a request
\* publishes only if no request that was made after it has published.
C23_StaleNeverOverwrites ==
    [][pubseq' >= pubseq]_vars

\* the time a timestamped line states, in milliseconds
StampMs(line) ==
    LET m == TimeMatch(line) IN
    m.minutes * 60000 + m.seconds * 1000
    + NumVal(m.fraction) * Pow(10, 3 - Len(m.fraction))

Stamped(data) == {i \in 1..Len(data) : TimeMatch(data[i]).ok}
HasMarker(line) == \E k \in 1..Len(LineText(line)) : LineText(line)[k] = Marker

\* the timestamped line before line i, or 0
PrevStamped(data, i) ==
    LET before == {j \in Stamped(data) : j < i} IN
    IF before = {} THEN 0 ELSE CHOOSE j \in before : \A k \in before : k <= j

\* C24: the segmenter returns [] for empty input, and for two consecutive
\* timestamped lines without the interlude marker it starts a verse at the later
\* line if and only if the gap is strictly greater than gap_threshold.
C24_StrictGap ==
    (ret.done /\ call.fn = "detect_verses")
    => /\ call.data = <<>> => ret.val = <<>>
       /\ \A i \in Stamped(call.data) :
            (PrevStamped(call.data, i) # 0 /\ ~HasMarker(call.data[i]))
            => ((\E k \in 1..Len(ret.val) : ret.val[k].index = i - 1)
                <=> (StampMs(call.data[i])
                       - StampMs(call.data[PrevStamped(call.data, i)])
                     > call.gap_threshold * 1000))

\* whether line i is one the verse rule names: the first timestamped line, or a
\* later timestamped line whose gap to the timestamped line before it exceeds
\* the threshold or whose text holds the interlude marker
Triggers(data, i, gap_threshold) ==
    /\ i \in Stamped(data)
    /\ \/ PrevStamped(data, i) = 0
       \/ StampMs(data[i]) - StampMs(data[PrevStamped(data, i)]) > gap_threshold * 1000
       \/ HasMarker(data[i])

TriggerLines(data, gap_threshold) ==
    SelectSeq([i \in 1..Len(data) |-> i], LAMBDA i : Triggers(data, i, gap_threshold))

\* C25: the verses are exactly one for the first timestamped line plus one for
\* each later timestamped line whose gap exceeds the threshold or whose text
\* holds the interlude marker, each with the start time and the text of its
\* triggering line; lines at 33.71, 39.47 and 85.57 s give two verses, at 33.71
\* and 85.57 s.
C25_VersesAreTriggers ==
    (ret.done /\ call.fn = "detect_verses")
    => LET lines == TriggerLines(call.data, call.gap_threshold) IN
       /\ Len(ret.val) = Len(lines)
       /\ \A k \in 1..Len(lines) :
            /\ ret.val[k].start_time * 10 = StampMs(call.data[lines[k]])
            /\ ret.val[k].first_line = LineText(call.data[lines[k]])

\* C26: in a returned verse list the index field of the k-th verse (counted
\* from 0) equals k, its position in the list, also when lines without a
\* timestamp were skipped.
C26_IndexIsPosition ==
    (ret.done /\ call.fn = "detect_verses")
    => \A k \in 1..Len(ret.val) : ret.val[k].index = k - 1

\* C27: when the lyrics obtained for a track hold no parseable timestamp (plain
\* text of the primary provider), the verses of the track-lyrics lookup come
\* from paragraph segmentation, the first with start time 0 and the others with
\* the unknown time, so lyrics that are not empty never give an empty verse list.
C27_PlainLyricsGiveParagraphs ==
    /\ (ret.done /\ call.fn = "track_lyrics" /\ call.key /\ call.rapid.kind = "ok"
        /\ call.rapid.data # <<>> /\ Stamped(call.rapid.data) = {})
       => /\ ret.val.verse # <<>>
          /\ \A k \in 1..Len(ret.val.verse) :
               ret.val.verse[k].start_time = IF k = 1 THEN 0 ELSE UnknownTime
    /\ (ret.done /\ call.fn = "fetch_lyrics" /\ call.browseId # NoId
        /\ call.yt.kind = "lyrics" /\ Strip(call.yt.lyrics) # <<>>)
       => LyricsVerses(ret.val) = ParagraphVerses(SplitBlocks(call.yt.lyrics), 1)

C29_PublishedTracksComplete ==
    \A i \in 1..Len(out_tracks) :
        /\ out_tracks[i].videoId # NoId
        /\ out_tracks[i].title # NoStr
        /\ out_tracks[i].music_url = WatchUrl(out_tracks[i].videoId)

\* whether the title of track t contains the query, case-insensitively
TitleMatches(t, q) == Contains(Lower(q), Lower(t.title))

\* C30: in a list returned by reorder_for_selection, after the pinned first
\* track (there is one unless the call is a refresh), every track whose title
\* does not contain the query precedes every track whose title contains it.
C30_NonMatchesBeforeMatches ==
    (ret.done /\ call.fn = "reorder_for_selection")
    => LET first == IF call.is_refresh THEN 1 ELSE 2 IN
       \A i, j \in first..Len(ret.val) :
          (TitleMatches(ret.val[i], call.q) /\ ~TitleMatches(ret.val[j], call.q)) => j < i

\* a selection returned a full list whose second track does not match and whose
\* third does, and the matching one came before the other in the input
C30_Witness ==
    /\ ret.done
    /\ call.fn = "reorder_for_selection"
    /\ ~call.is_refresh
    /\ Len(ret.val) = MaxTracks
    /\ ~TitleMatches(ret.val[2], call.q)
    /\ TitleMatches(ret.val[3], call.q)
    /\ \E i, j \in 1..Len(call.tracks) :
          i < j /\ call.tracks[i] = ret.val[3] /\ call.tracks[j] = ret.val[2]

\* C31: in search mode (neither selection nor refresh) a request that supplies
\* a videoId seeds both recommendation calls with it; without one, each branch's
\* call is seeded by the first track of that branch.
C31_SearchSeededByAnchor ==
    (rq.pc = "phase2" /\ ~rq.nextPlay /\ ~rq.refresh)
    => IF rq.videoId # NoId
       THEN rq.song_anchor_id = rq.videoId /\ rq.video_anchor_id = rq.videoId
       ELSE /\ rq.song_anchor_id = (IF rq.song_tracks # <<>>
                                    THEN rq.song_tracks[1].videoId ELSE NoId)
            /\ rq.video_anchor_id = (IF rq.video_tracks # <<>>
                                     THEN rq.video_tracks[1].videoId ELSE NoId)

\* C32: a track made of an accepted upstream record whose title contains
\* "official video" in any letter case has the label Official and a weight of
\* at least 10; the weight of a track is at least 10 if and only if Official is
\* among its labels.
C32_OfficialLabelAndWeight ==
    \A i \in 1..Len(out_tracks) :
        LET t == out_tracks[i] IN
        /\ Contains(Lower(OfficialTitle), Lower(t.title))
           => ("Official" \in Range(t.labels) /\ t.weight >= 10)
        /\ t.weight >= 10 <=> "Official" \in Range(t.labels)

NoRepeat(list) == Cardinality(Range(list)) = Len(list)

\* C33: whatever connects, disconnects and broadcasts have run, the player list
\* and the controller list are disjoint, together they hold exactly the
\* connections of all_connections, and no connection occurs twice in a list.
C33_RoleListsPartitionAll ==
    /\ Range(player_connections) \cap Range(controller_connections) = {}
    /\ Range(player_connections) \cup Range(controller_connections)
         = Range(all_connections)
    /\ NoRepeat(all_connections)
    /\ NoRepeat(player_connections)
    /\ NoRepeat(controller_connections)

\* every client connected, a failed send of a broadcast removed one of them, and
\* a player and a controller are still registered
C33_Witness ==
    /\ dropped # {}
    /\ Len(all_connections) = MaxConn - 1
    /\ player_connections # <<>>
    /\ controller_connections # <<>>

\* C34: a connection whose websocket_sync_hub handler has ended, for whatever
\* reason, is in none of the three lists of the hub.
C34_EndedIsUnregistered ==
    \A x \in Conns :
        hpc[x] = "closed"
        => x \notin Range(all_connections) \cup Range(player_connections)
                     \cup Range(controller_connections)

\* the step ends a /recommendations/ request with the context cached under k
\* (lines 257-261)
ServedFromCache(k) ==
    /\ rq'.pc = "idle"
    /\ rq'.status = StatusOk
    /\ \/ \E q \in CacheU.queries, l \in CacheU.limits, np \in BOOLEAN,
             v \in CacheU.vols, id \in CacheU.videoIds, rf \in CacheU.refreshes :
               /\ RecStart(q, l, np, v, id, rf, CacheU.maxReqs)
               /\ k = CacheKey(q, l, id)
       \/ /\ RecSendDone \/ RecSendFail
          /\ k = CacheKey(rq.query, rq.limit, rq.videoId)

\* C35: when a /recommendations/ request returns a track list, computed or
\* taken from the cache, out_tracks is that list.
C35_ReturnedIsPublished ==
    [][/\ \A k \in DOMAIN RESULT_CACHE :
            ServedFromCache(k) => RESULT_CACHE[k].tracks = out_tracks'
       /\ \A s \in CacheU.resps, v \in CacheU.resps :
            RecFinish(s, v) =>
               RESULT_CACHE'[CacheKey(rq.query, rq.limit, rq.videoId)].tracks
                 = out_tracks']_vars

\* the step ends a search-mode request (neither selection nor refresh) with
\* the context cached under k
SearchServedFromCache(k) ==
    /\ rq'.pc = "idle"
    /\ rq'.status = StatusOk
    /\ \E q \in AggU.queries, l \in AggU.limits, v \in AggU.vols, id \in AggU.videoIds :
          /\ RecStart(q, l, FALSE, v, id, FALSE, AggU.maxReqs)
          /\ k = CacheKey(q, l, id)

\* C36: a context served from the cache to a search-mode request for (query,
\* limit, videoId) was built by a search-mode run, never by a selection or a
\* refresh.
C36_SearchServedSearchResult ==
    [][\A k \in DOMAIN RESULT_CACHE :
         SearchServedFromCache(k) => RESULT_CACHE[k].by = "search"]_vars

\* C37: a lookup whose idx is negative, or is not below the length of
\* out_tracks, ends with a 400 and leaves next_song_dt as it was.
C37_OutOfRangeIsBadRequest ==
    [][/\ \A idx \in ReadIdx :
            (ReadStart(idx) /\ idx < 0)
            => /\ reader'.pc = "done"
               /\ reader'.status = StatusBadRequest
               /\ next_song_dt' = next_song_dt
       /\ (ReadLen /\ reader.idx >= Len(out_tracks))
          => /\ reader'.pc = "done"
             /\ reader'.status = StatusBadRequest
             /\ next_song_dt' = next_song_dt]_vars

====
